---- MODULE Spec2Model ----
(***************************************************************************)
(* Request governance layer of SmartTravel: RateLimitService (token        *)
(* bucket, request log, block table, circuit breaker) and the Gemini       *)
(* request path that calls it (retryWithBackoff, getTravelAnalysis,        *)
(* getPackingList).                                                        *)
(*                                                                         *)
(* Time is Date.now() in milliseconds, counted from the construction of    *)
(* the RateLimitService singleton.  Token counts are held in units of      *)
(* 1/TokenScale token so that the refill of 0.5 tokens per second is an    *)
(* integer per millisecond.                                                *)
(***************************************************************************)
EXTENDS Integers, Sequences, FiniteSets, TLC

\* ------------------------------------------------------------------ config
maxRequestsPerMinute == 10
maxRequestsPerHour == 100
maxRequestSize == 50000
bucketCapacity == 20
refillRateNum == 1
refillRateDen == 2
blockDurationMinutes == 15
suspiciousThreshold == 5
suspiciousWindowMs == 10000
unusualSizeFactor == 3
unusualSizeFloor == 10000
failureThreshold == 5
retryAfterCircuit == 300
retryAfterBurst == 60
retryAfterMinute == 60
retryAfterHour == 3600
maxRetries == 3
baseDelay == 1000
maxDelay == 30000
\* cityAutocompleteService
maxResults == 8
maxRequests == 20
windowMs == 60 * 1000
localConfidence == 90
initialConfidence == 100

oneMinuteMs == 60 * 1000
oneHourMs == 60 * 60 * 1000
blockDurationMs == blockDurationMinutes * 60 * 1000
halfOpenAfterMs == 5 * 60 * 1000
closeAfterMs == 10 * 60 * 1000
cleanupIntervalMs == 5 * 60 * 1000
breakerIntervalMs == 60 * 1000
logRetentionMs == 2 * 60 * 60 * 1000

\* tokens are stored multiplied by TokenScale; one millisecond refills
\* refillRate * TokenScale / 1000 = 1 unit
TokenScale == 1000 * refillRateDen
NoRetryAfter == 0 - 1

\* ------------------------------------------------------------------ bounds
\* cap of the failure counter (it is unbounded in the code)
MaxFailures == 7
\* cap of a request log in the circuit-breaker specification
MaxBreakerLog == 1
\* horizon, in minutes, of the circuit-breaker specification
BreakerMinutes == 13
\* horizon, in seconds, of the paced-client specification
PacedSeconds == 3700
\* horizon, in seconds, of the Gemini specification
GeminiSeconds == 10
\* minutes explored when a block is left to expire
BlockMinutes == 17
\* longest list given to deduplicateResults
MaxMerged == 3
\* most getAutocompleteResults calls awaiting the external API at a time
MaxPending == 2
\* most requests to the external API
MaxApiRequests == 3
\* calls of handleInputChange in a behaviour
MaxInputs == 3
\* the time typing and its lookups are followed for, ms
DebounceSpan == 1200

Identities == {"client_1", "client_2"}
Functions == {"getTravelAnalysis", "getPackingList"}
\* request sizes: ordinary, and above maxRequestSize
Sizes == {100, 60000}
\* Math.random() * 1000, its least and (truncated by the timer) greatest value
Jitters == {0, 999}

\* ------------------------------------------------------------------ state
VARIABLES
    now,             \* Date.now()
    requestLogs,     \* ip -> sequence of [timestamp, size] (absent = empty)
    tokenBuckets,    \* ip -> [present, tokens, lastRefill]
    blockedIPs,      \* ip -> block expiry, 0 when the ip has no entry
    circuitBreaker,  \* [failures, lastFailureTime, state]
    cleanupDue,      \* next firing of the cleanupOldLogs interval
    breakerDue,      \* next firing of the updateCircuitBreaker interval
    lastCheck,       \* arguments and return value of the latest checkRateLimit
    apiKey,          \* whether VITE_GEMINI_API_KEY is set (ai is not null)
    call,            \* the Gemini request in progress (getTravelAnalysis/getPackingList)
    cache,           \* CacheManager.cache: key -> [present, data, timestamp (expiry)]
    lastGet,         \* key and return value of the latest cache.get
    merged,          \* argument and return value of deduplicateResults
    apiRequests,     \* RateLimiter.requests.get('default'): times of the API requests
    pending,         \* the getAutocompleteResults calls that await the external API
    lastLookup,      \* how the latest getAutocompleteResults call ended
    hook             \* state and refs of useCityAutocomplete

vars == <<now, requestLogs, tokenBuckets, blockedIPs, circuitBreaker,
          cleanupDue, breakerDue, lastCheck, apiKey, call, cache, lastGet,
          merged, apiRequests, pending, lastLookup, hook>>

\* the state of the city autocomplete (cityAutocompleteService)
autoVars == <<cache, lastGet, merged, apiRequests, pending, lastLookup, hook>>
\* the part of it that the calls of getAutocompleteResults work on
lookupVars == <<cache, apiRequests, pending, lastLookup, hook>>
\* the state of the rate limit service and of the Gemini request path
rateVars == <<now, requestLogs, tokenBuckets, blockedIPs, circuitBreaker,
              cleanupDue, breakerDue, lastCheck, apiKey, call>>

govVars == <<requestLogs, tokenBuckets, blockedIPs>>

NoBucket == [present |-> FALSE, tokens |-> 0, lastRefill |-> 0]
NoCheck == [ip |-> "", size |-> 0, allowed |-> FALSE, reason |-> "none", retryAfter |-> NoRetryAfter]
NoError == [status |-> 0, retryAfter |-> NoRetryAfter, isRateLimited |-> FALSE]
IdleCall == [pc |-> "idle", fn |-> "", attempt |-> 0, netCalls |-> 0, wakeAt |-> 0,
             outcome |-> "none", error |-> NoError]

Min(a, b) == IF a <= b THEN a ELSE b
CeilDiv(a, b) == IF a >= 0 THEN (a + b - 1) \div b ELSE 0 - ((0 - a) \div b)

\* logs.slice(lo - 1, hi).reduce((sum, log) => sum + log.size, 0)
RECURSIVE SumRange(_, _, _)
SumRange(logs, lo, hi) ==
    IF lo > hi THEN 0
    ELSE IF lo = hi THEN logs[lo].size
    ELSE LET mid == (lo + hi) \div 2
         IN  SumRange(logs, lo, mid) + SumRange(logs, mid + 1, hi)

SumSizes(logs) == SumRange(logs, 1, Len(logs))

\* the count without its window: every logged request
CountAfter_NoWindow(logs, cutoff) == Len(logs)

\* logs.filter(log => log.timestamp > cutoff).length
CountAfter(logs, cutoff) == Cardinality({i \in 1..Len(logs) : logs[i].timestamp > cutoff})

\* logs.filter(log => log.timestamp > cutoff)
FilterAfter(logs, cutoff) == SelectSeq(logs, LAMBDA log : log.timestamp > cutoff)

\* ------------------------------------------------------- RateLimitService
\* isIPBlocked: the answer and the block table it leaves (an expired entry is deleted)
isIPBlocked(blocked, ip, t) ==
    IF blocked[ip] = 0 THEN [blocked |-> FALSE, table |-> blocked]
    ELSE IF t > blocked[ip] THEN [blocked |-> FALSE, table |-> [blocked EXCEPT ![ip] = 0]]
    ELSE [blocked |-> TRUE, table |-> blocked]

\* blockIP with a block of ten minutes
blockIP_TenMinutes(blocked, ip, t) == [blocked EXCEPT ![ip] = t + closeAfterMs]

blockIP(blocked, ip, t) == [blocked EXCEPT ![ip] = t + blockDurationMs]

\* checkTokenBucket: the answer and the bucket it leaves
\* checkTokenBucket without the Math.min of the refill
checkTokenBucket_NoCap(buckets, ip, t) ==
    LET bucket == IF buckets[ip].present THEN buckets[ip]
                  ELSE [present |-> TRUE, tokens |-> bucketCapacity * TokenScale, lastRefill |-> t]
        tokensToAdd == ((t - bucket.lastRefill) * refillRateNum * TokenScale) \div (1000 * refillRateDen)
        refilled == bucket.tokens + tokensToAdd
    IN  IF refilled >= TokenScale
        THEN [ok |-> TRUE,
              buckets |-> [buckets EXCEPT ![ip] = [present |-> TRUE, tokens |-> refilled - TokenScale, lastRefill |-> t]]]
        ELSE [ok |-> FALSE,
              buckets |-> [buckets EXCEPT ![ip] = [present |-> TRUE, tokens |-> refilled, lastRefill |-> t]]]

checkTokenBucket(buckets, ip, t) ==
    LET bucket == IF buckets[ip].present THEN buckets[ip]
                  ELSE [present |-> TRUE, tokens |-> bucketCapacity * TokenScale, lastRefill |-> t]
        tokensToAdd == ((t - bucket.lastRefill) * refillRateNum * TokenScale) \div (1000 * refillRateDen)
        refilled == Min(bucketCapacity * TokenScale, bucket.tokens + tokensToAdd)
    IN  IF refilled >= TokenScale
        THEN [ok |-> TRUE,
              buckets |-> [buckets EXCEPT ![ip] = [present |-> TRUE, tokens |-> refilled - TokenScale, lastRefill |-> t]]]
        ELSE [ok |-> FALSE,
              buckets |-> [buckets EXCEPT ![ip] = [present |-> TRUE, tokens |-> refilled, lastRefill |-> t]]]

\* checkSuspiciousPatterns firing only above the threshold
checkSuspiciousPatterns_AboveThreshold(logs, t) ==
    LET recentRequests == {i \in 1..Len(logs) : t - logs[i].timestamp < suspiciousWindowMs}
    IN  IF Cardinality(recentRequests) > suspiciousThreshold THEN TRUE
        ELSE /\ Len(logs) > 0
             /\ logs[Len(logs)].size * Len(logs) > SumSizes(logs) * unusualSizeFactor
             /\ logs[Len(logs)].size > unusualSizeFloor

checkSuspiciousPatterns(logs, t) ==
    LET recentRequests == {i \in 1..Len(logs) : t - logs[i].timestamp < suspiciousWindowMs}
    IN  IF Cardinality(recentRequests) >= suspiciousThreshold THEN TRUE
        ELSE /\ Len(logs) > 0
             \* lastRequest.size > avgSize * 3, avgSize = sum / length
             /\ logs[Len(logs)].size * Len(logs) > SumSizes(logs) * unusualSizeFactor
             /\ logs[Len(logs)].size > unusualSizeFloor

\* updateCircuitBreaker closing a HALF_OPEN breaker after the five minutes
updateCircuitBreaker_ClosesEarly(cb, t) ==
    LET timeSinceLastFailure == t - cb.lastFailureTime
    IN  IF cb.state = "OPEN" /\ timeSinceLastFailure > halfOpenAfterMs
        THEN [cb EXCEPT !.state = "HALF_OPEN"]
        ELSE IF cb.state = "HALF_OPEN" /\ timeSinceLastFailure > halfOpenAfterMs
        THEN [cb EXCEPT !.state = "CLOSED", !.failures = 0]
        ELSE cb

\* updateCircuitBreaker with ">=" in place of ">" for the five minutes
updateCircuitBreaker_AtFiveMinutes(cb, t) ==
    LET timeSinceLastFailure == t - cb.lastFailureTime
    IN  IF cb.state = "OPEN" /\ timeSinceLastFailure >= halfOpenAfterMs
        THEN [cb EXCEPT !.state = "HALF_OPEN"]
        ELSE IF cb.state = "HALF_OPEN" /\ timeSinceLastFailure > closeAfterMs
        THEN [cb EXCEPT !.state = "CLOSED", !.failures = 0]
        ELSE cb

\* updateCircuitBreaker that closes the circuit and keeps the count of failures
updateCircuitBreaker_KeepsCount(cb, t) ==
    LET timeSinceLastFailure == t - cb.lastFailureTime
    IN  IF cb.state = "OPEN" /\ timeSinceLastFailure > halfOpenAfterMs
        THEN [cb EXCEPT !.state = "HALF_OPEN"]
        ELSE IF cb.state = "HALF_OPEN" /\ timeSinceLastFailure > closeAfterMs
        THEN [cb EXCEPT !.state = "CLOSED"]
        ELSE cb

updateCircuitBreaker(cb, t) ==
    LET timeSinceLastFailure == t - cb.lastFailureTime
    IN  IF cb.state = "OPEN" /\ timeSinceLastFailure > halfOpenAfterMs
        THEN [cb EXCEPT !.state = "HALF_OPEN"]
        ELSE IF cb.state = "HALF_OPEN" /\ timeSinceLastFailure > closeAfterMs
        THEN [cb EXCEPT !.state = "CLOSED", !.failures = 0]
        ELSE cb

\* recordFailure with ">" in place of ">=" for the threshold
recordFailure_AboveThreshold(cb, t) ==
    LET failures == cb.failures + 1
    IN  [failures |-> failures,
         lastFailureTime |-> t,
         state |-> IF failures > failureThreshold /\ cb.state = "CLOSED" THEN "OPEN"
                   ELSE IF cb.state = "HALF_OPEN" THEN "OPEN"
                   ELSE cb.state]

recordFailure(cb, t) ==
    LET failures == cb.failures + 1
    IN  [failures |-> failures,
         lastFailureTime |-> t,
         state |-> IF failures >= failureThreshold /\ cb.state = "CLOSED" THEN "OPEN"
                   ELSE IF cb.state = "HALF_OPEN" THEN "OPEN"
                   ELSE cb.state]

\* isCircuitBreakerOpen taking HALF_OPEN for open and OPEN for not
isCircuitBreakerOpen_HalfOpen(cb) == cb.state = "HALF_OPEN"

isCircuitBreakerOpen(cb) == cb.state = "OPEN"

Rejected(reason, retryAfter) == [allowed |-> FALSE, reason |-> reason, retryAfter |-> retryAfter]
Allowed == [allowed |-> TRUE, reason |-> "none", retryAfter |-> NoRetryAfter]

\* checkRateLimit with the size check moved before the block check
checkRateLimit_SizeFirst(ip, requestSize, t, cb, logsMap, buckets, blocked) ==
    LET same(res) == [result |-> res, requestLogs |-> logsMap, tokenBuckets |-> buckets, blockedIPs |-> blocked]
        blk == isIPBlocked(blocked, ip, t)
        logs == logsMap[ip]
        tb == checkTokenBucket(buckets, ip, t)
        requestsLastMinute == CountAfter(logs, t - oneMinuteMs)
        requestsLastHour == CountAfter(logs, t - oneHourMs)
    IN  IF isCircuitBreakerOpen(cb)
        THEN same(Rejected("circuit_open", retryAfterCircuit))
        ELSE IF requestSize > maxRequestSize
        THEN same(Rejected("too_large", NoRetryAfter))
        ELSE IF blk.blocked
        THEN same(Rejected("blocked", CeilDiv(blocked[ip] - t, 1000)))
        ELSE IF ~tb.ok
        THEN [result |-> Rejected("burst", retryAfterBurst), requestLogs |-> logsMap,
              tokenBuckets |-> tb.buckets, blockedIPs |-> blk.table]
        ELSE IF requestsLastMinute >= maxRequestsPerMinute
        THEN [result |-> Rejected("per_minute", retryAfterMinute), requestLogs |-> logsMap,
              tokenBuckets |-> tb.buckets, blockedIPs |-> blk.table]
        ELSE IF requestsLastHour >= maxRequestsPerHour
        THEN [result |-> Rejected("per_hour", retryAfterHour), requestLogs |-> logsMap,
              tokenBuckets |-> tb.buckets, blockedIPs |-> blk.table]
        ELSE IF checkSuspiciousPatterns(logs, t)
        THEN [result |-> Rejected("suspicious", blockDurationMinutes * 60), requestLogs |-> logsMap,
              tokenBuckets |-> tb.buckets, blockedIPs |-> blockIP(blk.table, ip, t)]
        ELSE [result |-> Allowed,
              requestLogs |-> [logsMap EXCEPT ![ip] = Append(logs, [timestamp |-> t, size |-> requestSize])],
              tokenBuckets |-> tb.buckets, blockedIPs |-> blk.table]

\* checkRateLimit admitting while the minute count equals the limit
checkRateLimit_MinuteOffByOne(ip, requestSize, t, cb, logsMap, buckets, blocked) ==
    LET same(res) == [result |-> res, requestLogs |-> logsMap, tokenBuckets |-> buckets, blockedIPs |-> blocked]
        blk == isIPBlocked(blocked, ip, t)
        logs == logsMap[ip]
        tb == checkTokenBucket(buckets, ip, t)
        requestsLastMinute == CountAfter(logs, t - oneMinuteMs)
        requestsLastHour == CountAfter(logs, t - oneHourMs)
    IN  IF isCircuitBreakerOpen(cb)
        THEN same(Rejected("circuit_open", retryAfterCircuit))
        ELSE IF blk.blocked
        THEN same(Rejected("blocked", CeilDiv(blocked[ip] - t, 1000)))
        ELSE IF requestSize > maxRequestSize
        THEN [same(Rejected("too_large", NoRetryAfter)) EXCEPT !.blockedIPs = blk.table]
        ELSE IF ~tb.ok
        THEN [result |-> Rejected("burst", retryAfterBurst), requestLogs |-> logsMap,
              tokenBuckets |-> tb.buckets, blockedIPs |-> blk.table]
        ELSE IF requestsLastMinute > maxRequestsPerMinute
        THEN [result |-> Rejected("per_minute", retryAfterMinute), requestLogs |-> logsMap,
              tokenBuckets |-> tb.buckets, blockedIPs |-> blk.table]
        ELSE IF requestsLastHour >= maxRequestsPerHour
        THEN [result |-> Rejected("per_hour", retryAfterHour), requestLogs |-> logsMap,
              tokenBuckets |-> tb.buckets, blockedIPs |-> blk.table]
        ELSE IF checkSuspiciousPatterns(logs, t)
        THEN [result |-> Rejected("suspicious", blockDurationMinutes * 60), requestLogs |-> logsMap,
              tokenBuckets |-> tb.buckets, blockedIPs |-> blockIP(blk.table, ip, t)]
        ELSE [result |-> Allowed,
              requestLogs |-> [logsMap EXCEPT ![ip] = Append(logs, [timestamp |-> t, size |-> requestSize])],
              tokenBuckets |-> tb.buckets, blockedIPs |-> blk.table]

\* checkRateLimit(requestSize) for the identity ip at time t: the value it
\* returns and the three maps as it leaves them
checkRateLimit(ip, requestSize, t, cb, logsMap, buckets, blocked) ==
    LET same(res) == [result |-> res, requestLogs |-> logsMap, tokenBuckets |-> buckets, blockedIPs |-> blocked]
        blk == isIPBlocked(blocked, ip, t)
        logs == logsMap[ip]
        tb == checkTokenBucket(buckets, ip, t)
        requestsLastMinute == CountAfter(logs, t - oneMinuteMs)
        requestsLastHour == CountAfter(logs, t - oneHourMs)
    IN  IF isCircuitBreakerOpen(cb)
        THEN same(Rejected("circuit_open", retryAfterCircuit))
        ELSE IF blk.blocked
        THEN same(Rejected("blocked", CeilDiv(blocked[ip] - t, 1000)))
        ELSE IF requestSize > maxRequestSize
        THEN [same(Rejected("too_large", NoRetryAfter)) EXCEPT !.blockedIPs = blk.table]
        ELSE IF ~tb.ok
        THEN [result |-> Rejected("burst", retryAfterBurst), requestLogs |-> logsMap,
              tokenBuckets |-> tb.buckets, blockedIPs |-> blk.table]
        ELSE IF requestsLastMinute >= maxRequestsPerMinute
        THEN [result |-> Rejected("per_minute", retryAfterMinute), requestLogs |-> logsMap,
              tokenBuckets |-> tb.buckets, blockedIPs |-> blk.table]
        ELSE IF requestsLastHour >= maxRequestsPerHour
        THEN [result |-> Rejected("per_hour", retryAfterHour), requestLogs |-> logsMap,
              tokenBuckets |-> tb.buckets, blockedIPs |-> blk.table]
        ELSE IF checkSuspiciousPatterns(logs, t)
        THEN [result |-> Rejected("suspicious", blockDurationMinutes * 60), requestLogs |-> logsMap,
              tokenBuckets |-> tb.buckets, blockedIPs |-> blockIP(blk.table, ip, t)]
        ELSE [result |-> Allowed,
              requestLogs |-> [logsMap EXCEPT ![ip] = Append(logs, [timestamp |-> t, size |-> requestSize])],
              tokenBuckets |-> tb.buckets, blockedIPs |-> blk.table]

\* reset() clearing the maps altogether
reset_Everyone(logsMap, buckets, blocked, ip) ==
    [requestLogs |-> [i \in Identities |-> <<>>],
     tokenBuckets |-> [i \in Identities |-> NoBucket],
     blockedIPs |-> [i \in Identities |-> 0]]

\* reset(): the three maps after the delete of the entries of ip
reset(logsMap, buckets, blocked, ip) ==
    [requestLogs |-> [logsMap EXCEPT ![ip] = <<>>],
     tokenBuckets |-> [buckets EXCEPT ![ip] = NoBucket],
     blockedIPs |-> [blocked EXCEPT ![ip] = 0]]

cleanupLogs(logsMap, t) ==
    [ip \in Identities |-> FilterAfter(logsMap[ip], t - logRetentionMs)]
cleanupBuckets(buckets, t) ==
    [ip \in Identities |-> IF buckets[ip].present /\ t - buckets[ip].lastRefill > logRetentionMs
                           THEN NoBucket ELSE buckets[ip]]
cleanupBlocks(blocked, t) ==
    [ip \in Identities |-> IF blocked[ip] # 0 /\ t > blocked[ip] THEN 0 ELSE blocked[ip]]



\* ------------------------------------------------------------ geminiService
\* new APIError(message, statusCode, retryAfter, isRateLimited)
APIError(status, retryAfter, isRateLimited) ==
    [status |-> status, retryAfter |-> retryAfter, isRateLimited |-> isRateLimited]

\* a rate-limit error with the fixed hint of the catch block (300)
rateLimitError_FixedRetryAfter(check) == APIError(429, 300, TRUE)

\* the error thrown when checkRateLimit does not allow the request
rateLimitError(check) == APIError(429, check.retryAfter, TRUE)

\* the delay before the retry that follows the failed attempt
backoffDelay(attempt, jitter) == Min(baseDelay * 2^attempt + jitter, maxDelay)

\* the catch block of getTravelAnalysis/getPackingList: the error it throws
\* for an error that is no APIError ("syntax": JSON.parse failed; "quota": the
\* message mentions quota, rate or limit; anything else)
classifyError(kind) ==
    IF kind = "syntax" THEN APIError(422, NoRetryAfter, FALSE)
    ELSE IF kind = "quota" THEN APIError(429, 300, TRUE)
    ELSE APIError(503, NoRetryAfter, FALSE)

\* retryWithBackoff that retries every APIError
isNonRetryable_Never(error) == FALSE

\* the test of retryWithBackoff on a caught APIError: rate-limit errors and
\* client errors are thrown at once (status 0: statusCode undefined)
isNonRetryable(error) ==
    error.isRateLimited \/ (error.status # 0 /\ error.status >= 400 /\ error.status < 500)

\* the circuit breaker after generateContent resolved: the operation calls
\* recordFailure() before it returns the result
afterResolve(cb, t) == recordFailure(cb, t)

\* the circuit breaker after the catch block of getTravelAnalysis/getPackingList
afterCatch(cb, t) == recordFailure(cb, t)

\* the circuit breaker after retryWithBackoff gave up (attempt === maxRetries)
afterRetriesExhausted(cb, t) == recordFailure(cb, t)

\* --------------------------------------------------- cityAutocompleteService
\* EnhancedCityResult, as far as the service reads it; timestamp is optional
NoTimestamp == 0 - 1
Roma == [name |-> "Roma", country |-> "Italia", source |-> "local", confidence |-> 90,
         popularity |-> 10, timestamp |-> NoTimestamp]
RomaApi == [name |-> "roma", country |-> "Italia", source |-> "api", confidence |-> 85,
            popularity |-> 9, timestamp |-> NoTimestamp]
Paris == [name |-> "Paris", country |-> "France", source |-> "api", confidence |-> 95,
          popularity |-> 10, timestamp |-> NoTimestamp]

\* cacheKey = `autocomplete:${sanitizedQuery}:${maxResults}`
CacheKeys == {<<"ro", maxResults>>, <<"xq", maxResults>>}
\* the keys of every query that is looked up
AllCacheKeys == CacheKeys \cup {<<"rom", maxResults>>, <<"roma", maxResults>>}
NoEntry == [present |-> FALSE, data |-> <<>>, timestamp |-> 0]
NoGet == [key |-> <<>>, hit |-> FALSE, data |-> <<>>]

\* data.map(item => ({ ...item, timestamp: Date.now() }))
stamp(data, t) == [i \in 1..Len(data) |-> [data[i] EXCEPT !.timestamp = t]]

\* CacheManager.set
cacheSet(c, key, data, ttl, t) ==
    [c EXCEPT ![key] = [present |-> TRUE, data |-> stamp(data, t), timestamp |-> t + ttl]]

\* CacheManager.get with ">=" in place of ">" for the expiry
cacheGet_ExpiresAtTTL(c, key, t) ==
    IF ~c[key].present THEN [hit |-> FALSE, data |-> <<>>, cache |-> c]
    ELSE IF t >= c[key].timestamp
    THEN [hit |-> FALSE, data |-> <<>>, cache |-> [c EXCEPT ![key] = NoEntry]]
    ELSE [hit |-> TRUE, data |-> c[key].data, cache |-> c]

\* CacheManager.get: the entry's data, or null (hit FALSE); an expired entry
\* is deleted
cacheGet(c, key, t) ==
    IF ~c[key].present THEN [hit |-> FALSE, data |-> <<>>, cache |-> c]
    ELSE IF t > c[key].timestamp
    THEN [hit |-> FALSE, data |-> <<>>, cache |-> [c EXCEPT ![key] = NoEntry]]
    ELSE [hit |-> TRUE, data |-> c[key].data, cache |-> c]

\* String.prototype.toLowerCase on the names that occur
toLowerCase(str) ==
    CASE str = "Roma" -> "roma" [] str = "Italia" -> "italia"
      [] str = "Paris" -> "paris" [] str = "France" -> "france"
      [] str = "Ro" -> "ro"
      [] str = "Val" -> "val" [] str = "Val-d" -> "val-d"
      [] str = "d-Or" -> "d-or" [] str = "Or" -> "or"
      [] OTHER -> str

\* `${result.name.toLowerCase()}-${result.country.toLowerCase()}`
dedupKey(result) == toLowerCase(result.name) \o "-" \o toLowerCase(result.country)

\* deduplicated.findIndex(r => key of r === key), -1 as 0
findIndex(deduplicated, key) ==
    LET hits == {i \in 1..Len(deduplicated) : dedupKey(deduplicated[i]) = key}
    IN  IF hits = {} THEN 0 ELSE CHOOSE i \in hits : \A j \in hits : i <= j

\* the for loop of deduplicateResults from the i-th result on; the set seen
\* holds the keys of the results in deduplicated
RECURSIVE dedupLoop(_, _, _)
dedupLoop(results, i, deduplicated) ==
    IF i > Len(results) THEN deduplicated
    ELSE LET result == results[i]
             existingIndex == findIndex(deduplicated, dedupKey(result))
         IN  IF existingIndex = 0
             THEN dedupLoop(results, i + 1, Append(deduplicated, result))
             ELSE IF result.confidence > deduplicated[existingIndex].confidence
             THEN dedupLoop(results, i + 1, [deduplicated EXCEPT ![existingIndex] = result])
             ELSE dedupLoop(results, i + 1, deduplicated)

\* deduplicateResults keeping the first result of every key
deduplicateResults_KeepFirst(results) ==
    SelectSeq([i \in 1..Len(results) |->
                  IF \E j \in 1..(i - 1) : dedupKey(results[j]) = dedupKey(results[i])
                  THEN [results[i] EXCEPT !.confidence = 0 - 1] ELSE results[i]],
              LAMBDA r : r.confidence >= 0)

deduplicateResults(results) == dedupLoop(results, 1, <<>>)

\* the comparator of the sort in getAutocompleteResults: negative when a
\* goes before b
compareResults(a, b) ==
    IF a.source = "local" /\ b.source = "api" /\ a.confidence = 100 THEN 0 - 1
    ELSE IF b.source = "local" /\ a.source = "api" /\ b.confidence = 100 THEN 1
    ELSE IF b.confidence - a.confidence # 0 THEN b.confidence - a.confidence
    ELSE b.popularity - a.popularity

\* Array.prototype.sort (stable) with compareResults, by insertion
RECURSIVE sortResults(_)
sortResults(results) ==
    IF Len(results) <= 1 THEN results
    ELSE LET last == results[Len(results)]
             front == sortResults(SubSeq(results, 1, Len(results) - 1))
             stay == {i \in 1..Len(front) : compareResults(front[i], last) <= 0}
             k == IF stay = {} THEN 0 ELSE CHOOSE i \in stay : \A j \in stay : j <= i
         IN  SubSeq(front, 1, k) \o <<last>> \o SubSeq(front, k + 1, Len(front))

\* Array.prototype.slice(0, n)
slice(results, n) == SubSeq(results, 1, Min(Len(results), n))

\* !query || query.trim().length < minQueryLength (2), on the queries that occur
tooShort(query) == query \in {"", "r"}

\* searchDestinations(query, { maxResults }) on the destinations database, as
\* results of source local and confidence 90
localResultsOf(query) ==
    IF toLowerCase(query) \in {"ro", "rom", "roma"}
    THEN <<[name |-> "Roma", country |-> "Italia", source |-> "local",
            confidence |-> localConfidence, popularity |-> 10, timestamp |-> NoTimestamp]>>
    ELSE <<>>

\* getInitialSuggestions(maxResults) as results of source local and confidence 100
initialSuggestions ==
    <<[name |-> "Roma", country |-> "Italia", source |-> "local",
       confidence |-> initialConfidence, popularity |-> 10, timestamp |-> NoTimestamp]>>

\* `autocomplete:${sanitizedQuery}:${maxResults}`
cacheKeyOf(query) == <<toLowerCase(query), maxResults>>

\* new AutocompleteError(message, code, retryable, retryAfter)
AutocompleteError(code, retryable, retryAfter) ==
    [code |-> code, retryable |-> retryable, retryAfter |-> retryAfter]
NoAutocompleteError == AutocompleteError("none", FALSE, NoRetryAfter)

\* RateLimiter.canMakeRequest(): whether a request may be made, and the
\* request times kept
canMakeRequest(requests, t) ==
    LET validRequests == SelectSeq(requests, LAMBDA time : t - time < windowMs)
    IN  IF Len(validRequests) >= maxRequests
        THEN [ok |-> FALSE, requests |-> requests]
        ELSE [ok |-> TRUE, requests |-> Append(validRequests, t)]

\* RateLimiter.getRetryAfter()
getRetryAfter(requests, t) ==
    IF Len(requests) = 0 THEN 0
    ELSE LET oldestRequest == CHOOSE time \in {requests[i] : i \in 1..Len(requests)} :
                                  \A i \in 1..Len(requests) : time <= requests[i]
             retryAfter == windowMs - (t - oldestRequest)
         IN  IF retryAfter <= 0 THEN 0 ELSE CeilDiv(retryAfter, 1000)

\* what getAutocompleteResults returns or throws
Returned(results, source, fromCache, error) ==
    [kind |-> "return", results |-> results, source |-> source, fromCache |-> fromCache, error |-> error]
Thrown(error) ==
    [kind |-> "throw", results |-> <<>>, source |-> "none", fromCache |-> FALSE, error |-> error]
NoLookup == [kind |-> "none", results |-> <<>>, source |-> "none", fromCache |-> FALSE,
             error |-> NoAutocompleteError]

\* the catch block of getAutocompleteResults that attaches no error
lookupCatch_ErrorDropped(c, p, error, t) ==
    IF p.options.fallbackToLocal /\ Len(p.localResults) > 0
    THEN LET enhancedLocalResults == slice(p.localResults, maxResults)
         IN  [ret |-> Returned(enhancedLocalResults, "local", FALSE, NoAutocompleteError),
              cache |-> cacheSet(c, cacheKeyOf(p.query), enhancedLocalResults, p.options.cacheTimeout, t)]
    ELSE [ret |-> Thrown(error), cache |-> c]

\* the catch block of getAutocompleteResults: the external API failed for
\* the call p (its query, options and local results)
\* the catch block of getAutocompleteResults without its cache.set
lookupCatch_NotCached(c, p, error, t) ==
    IF p.options.fallbackToLocal /\ Len(p.localResults) > 0
    THEN [ret |-> Returned(slice(p.localResults, maxResults), "local", FALSE, error), cache |-> c]
    ELSE [ret |-> Thrown(error), cache |-> c]

lookupCatch(c, p, error, t) ==
    IF p.options.fallbackToLocal /\ Len(p.localResults) > 0
    THEN LET enhancedLocalResults == slice(p.localResults, maxResults)
         IN  [ret |-> Returned(enhancedLocalResults, "local", FALSE, error),
              cache |-> cacheSet(c, cacheKeyOf(p.query), enhancedLocalResults, p.options.cacheTimeout, t)]
    ELSE [ret |-> Thrown(error), cache |-> c]

\* the try block of getAutocompleteResults after fetchFromExternalAPI resolved
lookupMerge(c, p, apiResults, t) ==
    LET allResults == p.localResults \o slice(apiResults, maxResults)
        sortedResults == slice(sortResults(deduplicateResults(allResults)), maxResults)
    IN  [ret |-> Returned(sortedResults, IF Len(p.localResults) > 0 THEN "mixed" ELSE "api",
                          FALSE, NoAutocompleteError),
         cache |-> cacheSet(c, cacheKeyOf(p.query), sortedResults, p.options.cacheTimeout, t)]

\* getAutocompleteResults(query, options) up to its return, its throw or the
\* await of fetch: kind "pending" when the external API is awaited
lookupStart(c, requests, query, options, t) ==
    LET got == cacheGet(c, cacheKeyOf(query), t)
        localResults == localResultsOf(query)
        p == [query |-> query, options |-> options, localResults |-> localResults]
        limiter == canMakeRequest(requests, t)
    IN  IF tooShort(query)
        THEN [ret |-> Returned(slice(initialSuggestions, maxResults), "local", FALSE, NoAutocompleteError),
              cache |-> c, requests |-> requests, p |-> p]
        ELSE IF got.hit
        THEN [ret |-> Returned(got.data, "cache", TRUE, NoAutocompleteError),
              cache |-> got.cache, requests |-> requests, p |-> p]
        ELSE IF ~options.useExternalAPI \/ Len(localResults) >= maxResults
        THEN [ret |-> Returned(slice(localResults, maxResults), "local", FALSE, NoAutocompleteError),
              cache |-> cacheSet(got.cache, cacheKeyOf(query), slice(localResults, maxResults),
                                 options.cacheTimeout, t),
              requests |-> requests, p |-> p]
        ELSE IF ~limiter.ok
        THEN LET caught == lookupCatch(got.cache, p,
                               AutocompleteError("RATE_LIMIT_EXCEEDED", TRUE, getRetryAfter(requests, t)), t)
             IN  [ret |-> caught.ret, cache |-> caught.cache, requests |-> requests, p |-> p]
        ELSE [ret |-> [NoLookup EXCEPT !.kind = "pending"], cache |-> got.cache,
              requests |-> limiter.requests, p |-> p]

\* a call of getAutocompleteResults: its arguments, its local results and
\* whether useCityAutocomplete made it
Pending(p, viaHook) ==
    [query |-> p.query, options |-> p.options, localResults |-> p.localResults, viaHook |-> viaHook]
NoPending ==
    [query |-> "", options |-> [useExternalAPI |-> FALSE, fallbackToLocal |-> FALSE, cacheTimeout |-> 0],
     localResults |-> <<>>, viaHook |-> FALSE]

\* pending without its i-th call
RemoveAt(seq, i) == SubSeq(seq, 1, i - 1) \o SubSeq(seq, i + 1, Len(seq))

\* getErrorMessage(error) of useCityAutocomplete: the message by its case, and
\* the seconds it names
getErrorMessage(error) ==
    IF error.code = "RATE_LIMIT_EXCEEDED"
    THEN [text |-> "RATE_LIMIT_EXCEEDED",
          seconds |-> IF error.retryAfter = NoRetryAfter \/ error.retryAfter = 0 THEN 60 ELSE error.retryAfter]
    ELSE IF error.code \in {"API_RATE_LIMIT", "TIMEOUT", "NETWORK_ERROR"}
    THEN [text |-> error.code, seconds |-> 0]
    ELSE [text |-> "default", seconds |-> 0]
NoMessage == [text |-> "none", seconds |-> 0]

\* debounceMs of useCityAutocomplete, its default
debounceMs == 300

\* debounceRef.current before the first setTimeout
NoTimer == [query |-> "", due |-> 0]

\* useCityAutocomplete: the state right after the first render. timers: the
\* timeouts set and neither fired nor cleared; debounceRef: the timeout set
\* last; inputs: the calls of handleInputChange so far; selected: whether
\* selectSuggestion was called since the last input or search
InitialHook ==
    [lastQuery |-> "", suggestions |-> <<>>, showSuggestions |-> FALSE, isLoading |-> FALSE,
     error |-> NoMessage, source |-> "none", fromCache |-> FALSE,
     timers |-> {}, debounceRef |-> NoTimer, inputs |-> <<>>, selected |-> FALSE]

\* cleanup() that leaves the timeout of debounceRef running
cleanup_KeepsTimer(h) == h

\* cleanup(): clearTimeout(debounceRef.current); the abort of abortControllerRef
\* reaches no lookup, since its signal is passed to none
cleanup(h) == [h EXCEPT !.timers = h.timers \ {h.debounceRef}]

\* debouncedSearch(query) at time t
debouncedSearch(h, query, t) ==
    LET timer == [query |-> query, due |-> t + debounceMs]
    IN  [cleanup(h) EXCEPT !.timers = cleanup(h).timers \cup {timer}, !.debounceRef = timer]

\* the options useCityAutocomplete passes: its defaults, a short cacheTimeout
HookOptions == [useExternalAPI |-> TRUE, fallbackToLocal |-> TRUE, cacheTimeout |-> 1000]
showSuggestionsOnFocus == TRUE

\* hookSettled without the comparison with lastQueryRef
hookSettled_Unchecked(h, query, ret) ==
    IF ret.kind = "return"
    THEN [h EXCEPT !.suggestions = ret.results, !.source = ret.source, !.fromCache = ret.fromCache,
                   !.showSuggestions = Len(ret.results) > 0,
                   !.error = IF ret.error # NoAutocompleteError /\ Len(ret.results) = 0
                             THEN getErrorMessage(ret.error) ELSE h.error,
                   !.isLoading = FALSE]
    ELSE [h EXCEPT !.error = getErrorMessage(ret.error), !.suggestions = <<>>,
                   !.showSuggestions = FALSE, !.source = "none", !.fromCache = FALSE,
                   !.isLoading = FALSE]

\* search(query) of useCityAutocomplete after its await of
\* getAutocompleteResults(query, ...) settled with ret: try, catch, finally
hookSettled(h, query, ret) ==
    IF h.lastQuery # query THEN h
    ELSE IF ret.kind = "return"
    THEN [h EXCEPT !.suggestions = ret.results, !.source = ret.source, !.fromCache = ret.fromCache,
                   !.showSuggestions = Len(ret.results) > 0,
                   !.error = IF ret.error # NoAutocompleteError /\ Len(ret.results) = 0
                             THEN getErrorMessage(ret.error) ELSE h.error,
                   !.isLoading = FALSE]
    ELSE [h EXCEPT !.error = getErrorMessage(ret.error), !.suggestions = <<>>,
                   !.showSuggestions = FALSE, !.source = "none", !.fromCache = FALSE,
                   !.isLoading = FALSE]

\* ------------------------------------------------------------------ actions
InitAll(key, input) ==
    /\ now = 0
    /\ requestLogs = [ip \in Identities |-> <<>>]
    /\ tokenBuckets = [ip \in Identities |-> NoBucket]
    /\ blockedIPs = [ip \in Identities |-> 0]
    /\ circuitBreaker = [failures |-> 0, lastFailureTime |-> 0, state |-> "CLOSED"]
    /\ cleanupDue = cleanupIntervalMs
    /\ breakerDue = breakerIntervalMs
    /\ lastCheck = NoCheck
    /\ apiKey = key
    /\ call = IdleCall
    /\ cache = [k \in AllCacheKeys |-> NoEntry]
    /\ lastGet = NoGet
    /\ merged = [input |-> input, output |-> <<>>, done |-> FALSE]
    /\ apiRequests = <<>>
    /\ pending = <<>>
    /\ lastLookup = [p |-> NoPending, ret |-> NoLookup]
    /\ hook = InitialHook

\* the state after the modules are loaded, with or without the API key
InitWith(key) == InitAll(key, <<>>)

Init == InitWith(TRUE)

\* the earliest pending timer: time never passes a timer that is due
NextDue == LET s == {cleanupDue, breakerDue} \cup (IF call.pc = "backoff" THEN {call.wakeAt} ELSE {})
                        \cup {timer.due : timer \in hook.timers}
           IN  CHOOSE d \in s : \A e \in s : d <= e

\* time passes until t; the value checkRateLimit returned is gone with its caller
Advance(t) ==
    /\ t > now
    /\ t <= NextDue
    /\ now' = t
    /\ lastCheck' = NoCheck
    /\ UNCHANGED <<requestLogs, tokenBuckets, blockedIPs, circuitBreaker, cleanupDue, breakerDue, apiKey, call>> /\ UNCHANGED autoVars

ResultOf(ip, requestSize, r) ==
    [ip |-> ip, size |-> requestSize, allowed |-> r.result.allowed,
     reason |-> r.result.reason, retryAfter |-> r.result.retryAfter]

\* a direct call of checkRateLimit(requestSize) in the environment of identity ip
CheckRateLimit(ip, requestSize) ==
    LET r == checkRateLimit(ip, requestSize, now, circuitBreaker, requestLogs, tokenBuckets, blockedIPs)
    IN  /\ lastCheck' = ResultOf(ip, requestSize, r)
        /\ requestLogs' = r.requestLogs
        /\ tokenBuckets' = r.tokenBuckets
        /\ blockedIPs' = r.blockedIPs
        /\ UNCHANGED <<now, circuitBreaker, cleanupDue, breakerDue, apiKey, call>> /\ UNCHANGED autoVars

\* a direct call of the public recordFailure()
RecordFailure ==
    /\ circuitBreaker.failures < MaxFailures
    /\ circuitBreaker' = recordFailure(circuitBreaker, now)
    /\ UNCHANGED <<now, requestLogs, tokenBuckets, blockedIPs, cleanupDue, breakerDue, lastCheck, apiKey, call>> /\ UNCHANGED autoVars

\* setInterval(() => this.updateCircuitBreaker(), 60 * 1000)
UpdateCircuitBreakerTimer ==
    /\ now = breakerDue
    /\ circuitBreaker' = updateCircuitBreaker(circuitBreaker, now)
    /\ breakerDue' = breakerDue + breakerIntervalMs
    /\ UNCHANGED <<now, requestLogs, tokenBuckets, blockedIPs, cleanupDue, lastCheck, apiKey, call>> /\ UNCHANGED autoVars

\* setInterval(() => this.cleanupOldLogs(), 5 * 60 * 1000)
CleanupOldLogsTimer ==
    /\ now = cleanupDue
    /\ requestLogs' = cleanupLogs(requestLogs, now)
    /\ tokenBuckets' = cleanupBuckets(tokenBuckets, now)
    /\ blockedIPs' = cleanupBlocks(blockedIPs, now)
    /\ cleanupDue' = cleanupDue + cleanupIntervalMs
    /\ UNCHANGED <<now, circuitBreaker, breakerDue, lastCheck, apiKey, call>> /\ UNCHANGED autoVars

\* the public reset(), called in the environment of identity ip
Reset(ip) ==
    LET r == reset(requestLogs, tokenBuckets, blockedIPs, ip)
    IN  /\ requestLogs' = r.requestLogs
        /\ tokenBuckets' = r.tokenBuckets
        /\ blockedIPs' = r.blockedIPs
        /\ UNCHANGED <<now, circuitBreaker, cleanupDue, breakerDue, lastCheck, apiKey, call>> /\ UNCHANGED autoVars

\* getTravelAnalysis(inputs) / getPackingList(inputs) up to the first await of
\* the network: the mock answer without a key, the admission check, the throw
\* of the rate-limit error or the first generateContent call
StartRequest(fn, ip, requestSize) ==
    LET r == checkRateLimit(ip, requestSize, now, circuitBreaker, requestLogs, tokenBuckets, blockedIPs)
        check == ResultOf(ip, requestSize, r)
    IN  /\ call.pc \in {"idle", "done"}
        /\ IF ~apiKey
           THEN /\ call' = [IdleCall EXCEPT !.pc = "done", !.fn = fn, !.outcome = "mock"]
                /\ UNCHANGED <<requestLogs, tokenBuckets, blockedIPs, lastCheck>>
           ELSE /\ lastCheck' = check
                /\ requestLogs' = r.requestLogs
                /\ tokenBuckets' = r.tokenBuckets
                /\ blockedIPs' = r.blockedIPs
                /\ call' = IF ~check.allowed
                           THEN [IdleCall EXCEPT !.pc = "done", !.fn = fn, !.outcome = "error",
                                                 !.error = rateLimitError(check)]
                           ELSE [IdleCall EXCEPT !.pc = "awaitNet", !.fn = fn, !.netCalls = 1]
        /\ UNCHANGED <<now, circuitBreaker, cleanupDue, breakerDue, apiKey>> /\ UNCHANGED autoVars

\* generateContent resolves with a response whose text is valid JSON, empty, or
\* not parseable
NetResolve(content) ==
    LET cb1 == afterResolve(circuitBreaker, now)
    IN  /\ call.pc = "awaitNet"
        /\ circuitBreaker.failures + 2 <= MaxFailures
        /\ IF content = "valid"
           THEN /\ circuitBreaker' = cb1
                /\ call' = [call EXCEPT !.pc = "done", !.outcome = "result"]
           ELSE /\ circuitBreaker' = afterCatch(cb1, now)
                /\ call' = [call EXCEPT !.pc = "done", !.outcome = "error",
                                        !.error = classifyError(IF content = "malformed" THEN "syntax" ELSE "other")]
        /\ UNCHANGED <<now, requestLogs, tokenBuckets, blockedIPs, cleanupDue, breakerDue, lastCheck, apiKey>> /\ UNCHANGED autoVars

\* generateContent rejects (network error, timeout, upstream error; kind tells
\* whether its message mentions quota, rate or limit)
NetReject(kind, jitter) ==
    /\ call.pc = "awaitNet"
    /\ circuitBreaker.failures + 2 <= MaxFailures
    /\ IF call.attempt = maxRetries
       THEN /\ circuitBreaker' = afterCatch(afterRetriesExhausted(circuitBreaker, now), now)
            /\ call' = [call EXCEPT !.pc = "done", !.outcome = "error", !.error = classifyError(kind)]
       ELSE /\ call' = [call EXCEPT !.pc = "backoff", !.wakeAt = now + backoffDelay(call.attempt, jitter)]
            /\ UNCHANGED circuitBreaker
    /\ UNCHANGED <<now, requestLogs, tokenBuckets, blockedIPs, cleanupDue, breakerDue, lastCheck, apiKey>> /\ UNCHANGED autoVars

\* the operation given to retryWithBackoff throws an APIError
NetRejectAPIError(error, jitter) ==
    /\ call.pc = "awaitNet"
    /\ circuitBreaker.failures + 2 <= MaxFailures
    /\ IF isNonRetryable(error)
       THEN /\ circuitBreaker' = afterCatch(circuitBreaker, now)
            /\ call' = [call EXCEPT !.pc = "done", !.outcome = "error", !.error = error]
       ELSE IF call.attempt = maxRetries
       THEN /\ circuitBreaker' = afterCatch(afterRetriesExhausted(circuitBreaker, now), now)
            /\ call' = [call EXCEPT !.pc = "done", !.outcome = "error", !.error = error]
       ELSE /\ call' = [call EXCEPT !.pc = "backoff", !.wakeAt = now + backoffDelay(call.attempt, jitter)]
            /\ UNCHANGED circuitBreaker
    /\ UNCHANGED <<now, requestLogs, tokenBuckets, blockedIPs, cleanupDue, breakerDue, lastCheck, apiKey>> /\ UNCHANGED autoVars

\* the setTimeout of the backoff fires: the next attempt calls generateContent
BackoffDone ==
    /\ call.pc = "backoff"
    /\ now = call.wakeAt
    /\ call' = [call EXCEPT !.pc = "awaitNet", !.attempt = call.attempt + 1, !.netCalls = call.netCalls + 1, !.wakeAt = 0]
    /\ UNCHANGED <<now, requestLogs, tokenBuckets, blockedIPs, circuitBreaker, cleanupDue, breakerDue, lastCheck, apiKey>> /\ UNCHANGED autoVars

\* cache.set(key, data, ttl)
CacheSet(key, data, ttl) ==
    /\ cache' = cacheSet(cache, key, data, ttl, now)
    /\ UNCHANGED <<lastGet, merged, apiRequests, pending, lastLookup, hook>>
    /\ UNCHANGED rateVars

\* cache.get(key)
CacheGet(key) ==
    LET r == cacheGet(cache, key, now)
    IN  /\ cache' = r.cache
        /\ lastGet' = [key |-> key, hit |-> r.hit, data |-> r.data]
        /\ UNCHANGED <<merged, apiRequests, pending, lastLookup, hook>>
        /\ UNCHANGED rateVars

\* getAutocompleteResults(query, options) called directly: to its return or
\* throw, or to the await of the external API
GetAutocompleteResults(query, options) ==
    LET r == lookupStart(cache, apiRequests, query, options, now)
    IN  /\ Len(pending) < MaxPending
        /\ cache' = r.cache
        /\ apiRequests' = r.requests
        /\ IF r.ret.kind = "pending"
           THEN pending' = Append(pending, Pending(r.p, FALSE)) /\ UNCHANGED lastLookup
           ELSE lastLookup' = [p |-> Pending(r.p, FALSE), ret |-> r.ret] /\ UNCHANGED pending
        /\ UNCHANGED <<lastGet, merged, hook>>
        /\ UNCHANGED rateVars

\* fetch resolved for the i-th pending call and the response gave apiResults:
\* the call returns the merged results; the hook that made it goes on
ApiResolve(i, apiResults) ==
    /\ i \in 1..Len(pending)
    /\ LET p == pending[i]
           r == lookupMerge(cache, p, apiResults, now)
       IN  /\ cache' = r.cache
           /\ lastLookup' = [p |-> p, ret |-> r.ret]
           /\ pending' = RemoveAt(pending, i)
           /\ hook' = IF p.viaHook THEN hookSettled(hook, p.query, r.ret) ELSE hook
    /\ UNCHANGED <<lastGet, merged, apiRequests>>
    /\ UNCHANGED rateVars

\* fetchFromExternalAPI threw for the i-th pending call (status not ok,
\* timeout, network error): fallback to the local results or throw
ApiReject(i, error) ==
    /\ i \in 1..Len(pending)
    /\ LET p == pending[i]
           r == lookupCatch(cache, p, error, now)
       IN  /\ cache' = r.cache
           /\ lastLookup' = [p |-> p, ret |-> r.ret]
           /\ pending' = RemoveAt(pending, i)
           /\ hook' = IF p.viaHook THEN hookSettled(hook, p.query, r.ret) ELSE hook
    /\ UNCHANGED <<lastGet, merged, apiRequests>>
    /\ UNCHANGED rateVars

\* search(query) of useCityAutocomplete in the hook state h, to its end or to
\* the await of the external API inside getAutocompleteResults
SearchFrom(h, query) ==
    LET h1 == [cleanup(h) EXCEPT !.lastQuery = query, !.error = NoMessage, !.selected = FALSE]
        initial == lookupStart(cache, apiRequests, "", [HookOptions EXCEPT !.useExternalAPI = FALSE], now)
        r == lookupStart(cache, apiRequests, query, HookOptions, now)
    IN  /\ Len(pending) < MaxPending
        /\ IF tooShort(query)
           THEN /\ IF showSuggestionsOnFocus /\ query = ""
                   THEN /\ hook' = [h1 EXCEPT !.suggestions = initial.ret.results,
                                               !.source = initial.ret.source,
                                               !.fromCache = initial.ret.fromCache,
                                               !.showSuggestions = TRUE, !.isLoading = FALSE]
                        /\ lastLookup' = [p |-> Pending(initial.p, TRUE), ret |-> initial.ret]
                   ELSE /\ hook' = [h1 EXCEPT !.suggestions = <<>>, !.showSuggestions = FALSE,
                                               !.source = "none", !.fromCache = FALSE,
                                               !.isLoading = FALSE]
                        /\ UNCHANGED lastLookup
                /\ UNCHANGED <<cache, apiRequests, pending>>
           ELSE /\ cache' = r.cache
                /\ apiRequests' = r.requests
                /\ IF r.ret.kind = "pending"
                   THEN /\ pending' = Append(pending, Pending(r.p, TRUE))
                        /\ hook' = [h1 EXCEPT !.isLoading = TRUE]
                        /\ UNCHANGED lastLookup
                   ELSE /\ lastLookup' = [p |-> Pending(r.p, TRUE), ret |-> r.ret]
                        /\ hook' = hookSettled([h1 EXCEPT !.isLoading = TRUE], query, r.ret)
                        /\ UNCHANGED pending
        /\ UNCHANGED <<lastGet, merged>>
        /\ UNCHANGED rateVars

\* search(query) called by the component
Search(query) == SearchFrom(hook, query)

\* handleInputChange(value)
HandleInputChange(value) ==
    /\ hook' = [debouncedSearch(hook, value, now) EXCEPT
                   !.inputs = Append(hook.inputs, [value |-> value, at |-> now]),
                   !.selected = FALSE]
    /\ UNCHANGED <<cache, lastGet, merged, apiRequests, pending, lastLookup>>
    /\ UNCHANGED rateVars

\* a timeout set by debouncedSearch fires: search(query)
DebounceFires(timer) ==
    /\ timer \in hook.timers
    /\ now = timer.due
    /\ SearchFrom([hook EXCEPT !.timers = hook.timers \ {timer}], timer.query)

\* selectSuggestion(suggestion) for one of the suggestions displayed
SelectSuggestion ==
    /\ hook.showSuggestions /\ hook.suggestions # <<>>
    /\ hook' = [hook EXCEPT !.showSuggestions = FALSE, !.suggestions = <<>>, !.error = NoMessage,
                            !.selected = TRUE]
    /\ UNCHANGED <<cache, lastGet, merged, apiRequests, pending, lastLookup>>
    /\ UNCHANGED rateVars

\* clearSuggestions() of useCityAutocomplete
ClearSuggestions ==
    /\ hook' = [InitialHook EXCEPT !.timers = cleanup(hook).timers,
                                  !.debounceRef = hook.debounceRef, !.inputs = hook.inputs]
    /\ UNCHANGED <<cache, lastGet, merged, apiRequests, pending, lastLookup>>
    /\ UNCHANGED rateVars

\* getAutocompleteStats(): reads the size of the cache, calls
\* rateLimiter.canMakeRequest() and rateLimiter.getRetryAfter()
GetAutocompleteStats ==
    /\ apiRequests' = canMakeRequest(apiRequests, now).requests
    /\ UNCHANGED <<cache, lastGet, merged, pending, lastLookup, hook>>
    /\ UNCHANGED rateVars

\* deduplicateResults(merged.input)
Deduplicate ==
    /\ ~merged.done
    /\ merged' = [merged EXCEPT !.output = deduplicateResults(merged.input), !.done = TRUE]
    /\ UNCHANGED <<cache, lastGet, apiRequests, pending, lastLookup, hook>>
    /\ UNCHANGED rateVars

\* ----------------------------------------------------------- specifications
\* The governor under a free client: any number of calls at each of the
\* instants, ordinary and oversized requests, failures recorded at any time.
SpecInstants == {55000, 60000, 62000, 70000}

Next ==
    \/ \E t \in SpecInstants : Advance(t)
    \/ \E s \in Sizes : CheckRateLimit("client_1", s)
    \/ circuitBreaker.failures < failureThreshold /\ RecordFailure
    \/ UpdateCircuitBreakerTimer

Spec == Init /\ [][Next]_vars

\* A client that calls once every 5 seconds, for more than an hour.
PacedInstants == {k * 5000 : k \in 1..(PacedSeconds \div 5)}

NextPaced ==
    \/ \E t \in PacedInstants : t <= now + 5000 /\ lastCheck # NoCheck /\ Advance(t)
    \/ lastCheck = NoCheck /\ CheckRateLimit("client_1", 100)
    \/ UpdateCircuitBreakerTimer
    \/ CleanupOldLogsTimer

SpecPaced == Init /\ [][NextPaced]_vars

\* The circuit breaker over several minutes.
BreakerInstants == {30000, 340000} \cup {m * oneMinuteMs : m \in 1..BreakerMinutes}

NextBreaker ==
    \/ \E t \in BreakerInstants : Advance(t)
    \/ RecordFailure
    \/ UpdateCircuitBreakerTimer
    \/ CleanupOldLogsTimer
    \/ \E s \in Sizes : Len(requestLogs["client_1"]) < MaxBreakerLog /\ CheckRateLimit("client_1", s)

SpecBreaker == Init /\ [][NextBreaker]_vars

\* the same with the timers of the constructor firing and time passing
SpecBreakerLive ==
    /\ SpecBreaker
    /\ WF_vars(\E t \in BreakerInstants : Advance(t))
    /\ WF_vars(UpdateCircuitBreakerTimer)
    /\ WF_vars(CleanupOldLogsTimer)

\* The Gemini request path.
GeminiInstants == {NextDue}

NextGemini ==
    \/ \E t \in GeminiInstants : t <= GeminiSeconds * 1000 /\ Advance(t)
    \/ \E fn \in Functions, s \in Sizes : StartRequest(fn, "client_1", s)
    \/ \E c \in {"valid", "empty", "malformed"} : NetResolve(c)
    \/ \E k \in {"other", "quota"}, j \in Jitters : NetReject(k, j)
    \/ BackoffDone

InitGemini == \E key \in BOOLEAN : InitWith(key)

SpecGemini == InitGemini /\ [][NextGemini]_vars

\* A client that sends requests of ordinary and of large (admissible) size
\* at the start, is blocked, and comes back after the
\* 15 minutes; the timers fire every minute and every five minutes.
BlockSizes == {100, 40000}
BlockInstants == {m * oneMinuteMs : m \in 1..BlockMinutes}
ClientInstants == {0, 16 * oneMinuteMs}

NextBlock ==
    \/ \E t \in BlockInstants : Advance(t)
    \/ \E s \in BlockSizes : now \in ClientInstants /\ CheckRateLimit("client_1", s)
    \/ UpdateCircuitBreakerTimer
    \/ CleanupOldLogsTimer

SpecBlock == Init /\ [][NextBlock]_vars

\* Two identities (the fingerprint of getClientIP changes with the language
\* or the screen), requests, resets and failures within the first seconds.
ResetInstants == {5000}

NextReset ==
    \/ \E t \in ResetInstants : Advance(t)
    \/ \E ip \in Identities : CheckRateLimit(ip, 100)
    \/ \E ip \in Identities : Reset(ip)
    \/ RecordFailure

SpecReset == Init /\ [][NextReset]_vars

\* The cache on its own: entries set with a time to live of one or four
\* seconds and read before, at and after their expiry.
CacheInstants == {500, 1000, 1001, 4500}
CacheTTLs == {1000, 4000}
CacheData == {<<>>, <<Roma>>, <<Roma, Paris>>}

NextCache ==
    \/ \E t \in CacheInstants : Advance(t)
    \/ \E key \in CacheKeys, data \in CacheData, ttl \in CacheTTLs : CacheSet(key, data, ttl)
    \/ \E key \in CacheKeys : CacheGet(key)

SpecCache == Init /\ [][NextCache]_vars

\* deduplicateResults on every list of up to MaxMerged results: the same
\* city from the local list and from the API in either case of letters, with
\* lower, equal and higher confidence, and two places whose keys coincide.
RomaTie == [RomaApi EXCEPT !.confidence = 90]
RomaTop == [RomaApi EXCEPT !.name = "Roma", !.confidence = 95]
ValDOr == [name |-> "Val", country |-> "d-Or", source |-> "local", confidence |-> 90,
           popularity |-> 3, timestamp |-> NoTimestamp]
ValDOrApi == [name |-> "Val-d", country |-> "Or", source |-> "api", confidence |-> 88,
              popularity |-> 2, timestamp |-> NoTimestamp]
DedupItems == {Roma, RomaApi, RomaTie, RomaTop, ValDOr, ValDOrApi}
MergedInputs == UNION {[1..n -> DedupItems] : n \in 0..MaxMerged}

InitDedup == \E input \in MergedInputs : InitAll(TRUE, input)

NextDedup == Deduplicate

SpecDedup == InitDedup /\ [][NextDedup]_vars

\* getAutocompleteResults called directly with every choice of options, for
\* the empty query, a query with a local result (in two cases of letters)
\* and a query without; the external API answers or fails in any order.
Queries == {"", "ro", "Ro", "xq"}
LookupOptions == [useExternalAPI : BOOLEAN, fallbackToLocal : BOOLEAN, cacheTimeout : {1000}]
ApiResults == {<<>>, <<RomaApi>>, <<Paris, RomaApi>>}
ApiErrors == {AutocompleteError("API_RATE_LIMIT", TRUE, 60),
              AutocompleteError("API_ERROR", FALSE, NoRetryAfter),
              AutocompleteError("TIMEOUT", TRUE, NoRetryAfter),
              AutocompleteError("NETWORK_ERROR", TRUE, NoRetryAfter)}
LookupInstants == {1500}

NextLookup ==
    \/ \E t \in LookupInstants : Advance(t)
    \/ \E query \in Queries, options \in LookupOptions :
           Len(apiRequests) < MaxApiRequests /\ GetAutocompleteResults(query, options)
    \/ \E i \in 1..MaxPending, apiResults \in ApiResults : ApiResolve(i, apiResults)
    \/ \E i \in 1..MaxPending, error \in ApiErrors : ApiReject(i, error)

SpecLookup == Init /\ [][NextLookup]_vars

\* One input field: searches for the empty query, a query too short, a query
\* with a local result and one without, while earlier lookups are still
\* awaiting the external API; the lookups settle in any order.
HookQueries == {"", "r", "ro", "xq"}
HookInstants == {1500}

NextHook ==
    \/ \E t \in HookInstants : Advance(t)
    \/ \E query \in HookQueries : Len(apiRequests) < MaxApiRequests /\ Search(query)
    \/ \E i \in 1..MaxPending, apiResults \in ApiResults : ApiResolve(i, apiResults)
    \/ \E i \in 1..MaxPending, error \in ApiErrors : ApiReject(i, error)
    \/ ClearSuggestions

SpecHook == Init /\ [][NextHook]_vars

\* A client that sends bursts in the first minute, at instants that are not
\* whole seconds.
BurstInstants == {2500, 59999}

NextBurst ==
    \/ \E t \in BurstInstants : Advance(t)
    \/ \E s \in Sizes : CheckRateLimit("client_1", s)

SpecBurst == Init /\ [][NextBurst]_vars

\* One request through retryWithBackoff, with an operation that may throw
\* any error: a plain Error, or an APIError that is rate-limited, a client
\* error, a server error, or without status.
OperationErrors ==
    {APIError(429, 60, TRUE), APIError(404, NoRetryAfter, FALSE),
     APIError(503, NoRetryAfter, FALSE), APIError(0, NoRetryAfter, FALSE)}

NextRetry ==
    \/ \E t \in GeminiInstants : t <= GeminiSeconds * 1000 /\ Advance(t)
    \/ \E fn \in Functions, s \in Sizes : call.pc = "idle" /\ StartRequest(fn, "client_1", s)
    \/ \E c \in {"valid", "empty", "malformed"} : NetResolve(c)
    \/ \E k \in {"other", "quota"}, j \in Jitters : NetReject(k, j)
    \/ \E e \in OperationErrors, j \in Jitters : NetRejectAPIError(e, j)
    \/ BackoffDone

SpecRetry == Init /\ [][NextRetry]_vars

\* the timers fire, and every call of the operation settles
SpecRetryLive ==
    /\ SpecRetry
    /\ WF_vars(\E t \in GeminiInstants : t <= GeminiSeconds * 1000 /\ Advance(t))
    /\ WF_vars(BackoffDone)
    /\ WF_vars(\/ \E c \in {"valid", "empty", "malformed"} : NetResolve(c)
               \/ \E k \in {"other", "quota"}, j \in Jitters : NetReject(k, j)
               \/ \E e \in OperationErrors, j \in Jitters : NetRejectAPIError(e, j))

\* Lookups of the full name of a city of the local database.
RankingQueries == {"roma", "xq"}

NextRanking ==
    \/ \E t \in LookupInstants : Advance(t)
    \/ \E query \in RankingQueries, options \in LookupOptions :
           Len(apiRequests) < MaxApiRequests /\ GetAutocompleteResults(query, options)
    \/ \E i \in 1..MaxPending, apiResults \in ApiResults : ApiResolve(i, apiResults)
    \/ \E i \in 1..MaxPending, error \in ApiErrors : ApiReject(i, error)

SpecRanking == Init /\ [][NextRanking]_vars

\* Typing into the input: up to MaxInputs changes, 100 ms apart or after
\* the pending timeout fired.
TypedValues == {"ro", "rom", "roma"}
DebounceInstants == {100, 200, NextDue}

NextDebounce ==
    \/ \E t \in DebounceInstants : t <= DebounceSpan /\ Advance(t)
    \/ \E value \in TypedValues : Len(hook.inputs) < MaxInputs /\ HandleInputChange(value)
    \/ \E timer \in hook.timers : DebounceFires(timer)
    \/ \E i \in 1..MaxPending, apiResults \in ApiResults : ApiResolve(i, apiResults)
    \/ \E i \in 1..MaxPending, error \in ApiErrors : ApiReject(i, error)

SpecDebounce == Init /\ [][NextDebounce]_vars

\* Lookups with the external API enabled, repeated half a second and one and
\* a half seconds later; the API answers with other places or fails.
FallbackQueries == {"ro", "xq"}
FallbackOptions == [useExternalAPI : {TRUE}, fallbackToLocal : BOOLEAN, cacheTimeout : {1000}]
FallbackInstants == {500, 1500}

NextFallback ==
    \/ \E t \in FallbackInstants : Advance(t)
    \/ \E query \in FallbackQueries, options \in FallbackOptions :
           Len(apiRequests) < MaxApiRequests /\ GetAutocompleteResults(query, options)
    \/ \E i \in 1..MaxPending : ApiResolve(i, <<Paris, RomaApi>>)
    \/ \E i \in 1..MaxPending, error \in ApiErrors : ApiReject(i, error)

SpecFallback == Init /\ [][NextFallback]_vars

\* Lookups with the statistics read in between.
NextStats ==
    \/ \E t \in LookupInstants : Advance(t)
    \/ \E query \in FallbackQueries, options \in LookupOptions :
           Len(apiRequests) < MaxApiRequests /\ GetAutocompleteResults(query, options)
    \/ \E i \in 1..MaxPending, apiResults \in ApiResults : ApiResolve(i, apiResults)
    \/ \E i \in 1..MaxPending, error \in ApiErrors : ApiReject(i, error)
    \/ Len(apiRequests) < MaxApiRequests /\ GetAutocompleteStats

SpecStats == Init /\ [][NextStats]_vars

\* The hook with the user picking one of the suggestions displayed.
NextSelect ==
    \/ \E t \in HookInstants : Advance(t)
    \/ \E query \in HookQueries : Len(apiRequests) < MaxApiRequests /\ Search(query)
    \/ \E i \in 1..MaxPending, apiResults \in ApiResults : ApiResolve(i, apiResults)
    \/ \E i \in 1..MaxPending, error \in ApiErrors : ApiReject(i, error)
    \/ SelectSuggestion

SpecSelect == Init /\ [][NextSelect]_vars

\* Admission of requests that overlap: while the network call of one request
\* is pending, further requests of the same client pass their admission
\* check, at once or 55 seconds later.
AdmissionInstants == {55000}

NextAdmission ==
    \/ \E t \in AdmissionInstants : Advance(t)
    \/ \E fn \in Functions, s \in Sizes : StartRequest(fn, "client_1", s)
    \/ \E c \in {"valid", "empty", "malformed"} : NetResolve(c)
    \/ CheckRateLimit("client_1", 100)

SpecAdmission == Init /\ [][NextAdmission]_vars
\* ------------------------------------------------------------------ claims
\* the state as the claims read it
LoggedWithin(ip, ms) ==
    Cardinality({i \in 1..Len(requestLogs[ip]) : now - requestLogs[ip][i].timestamp < ms})
BlockedNow(ip) == blockedIPs[ip] # 0 /\ now <= blockedIPs[ip]
TokensAfterRefill(ip) ==
    IF ~tokenBuckets[ip].present THEN 20 * TokenScale
    ELSE Min(20 * TokenScale,
             tokenBuckets[ip].tokens + ((now - tokenBuckets[ip].lastRefill) * TokenScale) \div 2000)
SizeAnomaly(ip) ==
    LET logs == requestLogs[ip]
    IN  /\ logs # <<>>
        /\ logs[Len(logs)].size > 10000
        /\ logs[Len(logs)].size * Len(logs) > 3 * SumSizes(logs)
SuspiciousPattern(ip) == LoggedWithin(ip, 10000) >= 5 \/ SizeAnomaly(ip)
IsRetryAfter(check, reason, retryAfter) ==
    ~check.allowed /\ check.reason = reason /\ check.retryAfter = retryAfter

FirstFailing(ip, size) ==
    IF circuitBreaker.state = "OPEN" THEN 1
    ELSE IF BlockedNow(ip) THEN 2
    ELSE IF size > 50000 THEN 3
    ELSE IF TokensAfterRefill(ip) < TokenScale THEN 4
    ELSE IF LoggedWithin(ip, 60000) >= 10 THEN 5
    ELSE IF LoggedWithin(ip, 3600000) >= 100 THEN 6
    ELSE IF SuspiciousPattern(ip) THEN 7
    ELSE 8

C1_Decision(ip, size) ==
    LET first == FirstFailing(ip, size)
        remaining == blockedIPs[ip] - now
    IN  /\ lastCheck'.ip = ip /\ lastCheck'.size = size
        /\ first = 1 => IsRetryAfter(lastCheck', "circuit_open", 300) /\ UNCHANGED govVars
        /\ first = 2 => /\ ~lastCheck'.allowed /\ lastCheck'.reason = "blocked"
                        /\ lastCheck'.retryAfter * 1000 >= remaining
                        /\ (lastCheck'.retryAfter - 1) * 1000 < remaining
                        /\ UNCHANGED govVars
        /\ first = 3 => /\ IsRetryAfter(lastCheck', "too_large", NoRetryAfter)
                        /\ UNCHANGED <<requestLogs, tokenBuckets>>
        /\ first = 4 => /\ IsRetryAfter(lastCheck', "burst", 60)
                        /\ UNCHANGED requestLogs /\ blockedIPs'[ip] = 0
        /\ first = 5 => /\ IsRetryAfter(lastCheck', "per_minute", 60)
                        /\ UNCHANGED requestLogs /\ blockedIPs'[ip] = 0
        /\ first = 6 => /\ IsRetryAfter(lastCheck', "per_hour", 3600)
                        /\ UNCHANGED requestLogs /\ blockedIPs'[ip] = 0
        /\ first = 7 => IsRetryAfter(lastCheck', "suspicious", 900) /\ UNCHANGED requestLogs
        /\ first = 8 => /\ lastCheck'.allowed
                        /\ requestLogs' = [requestLogs EXCEPT ![ip] =
                               Append(@, [timestamp |-> now, size |-> size])]
        /\ lastCheck'.allowed => first = 8

C2_WindowLimits ==
    \A ip \in Identities :
        /\ LoggedWithin(ip, 60000) <= 10
        /\ LoggedWithin(ip, 3600000) <= 100

\* the hour is full: a request is rejected for the per-hour limit
C2_Witness ==
    /\ lastCheck.reason = "per_hour"
    /\ LoggedWithin("client_1", 3600000) = 100
    /\ LoggedWithin("client_1", 60000) < 10

\* the whole history of the identity is k requests at this instant, all of
\* them admitted, followed by b rejections that blocked it
BurstSoFar(ip, k, b) ==
    /\ Len(requestLogs[ip]) = k
    /\ \A i \in 1..k : requestLogs[ip][i].timestamp = now
    /\ blockedIPs[ip] = IF b = 0 THEN 0 ELSE now + 900000
    /\ IF k + b = 0 THEN ~tokenBuckets[ip].present
       ELSE tokenBuckets[ip] = [present |-> TRUE, tokens |-> (20 - k - b) * TokenScale, lastRefill |-> now]

TenWithin59(ip) ==
    /\ Len(requestLogs[ip]) = 10
    /\ requestLogs[ip][10].timestamp - requestLogs[ip][1].timestamp <= 59000

\* C4 as stated: after ten requests within 59 seconds the 11th is rejected
\* for the per-minute limit, and once more than 60 s have passed since the
\* first of them the next request is admitted.
C4_Original ==
    [][\A ip \in Identities, size \in Sizes :
          (CheckRateLimit(ip, size) /\ size <= 50000 /\ circuitBreaker.state # "OPEN"
             /\ TenWithin59(ip))
          => /\ now - requestLogs[ip][1].timestamp < 60000
                  => IsRetryAfter(lastCheck', "per_minute", 60)
             /\ now - requestLogs[ip][1].timestamp > 60000
                  => lastCheck'.allowed]_vars

\* C4 amended: when the ten requests within 59 seconds were all admitted, the
\* identity is not blocked and its bucket holds a token, the 11th request
\* made within 60 s of the first is rejected for the per-minute limit; once
\* more than 60 s have passed since the first, the next request is not
\* rejected for the per-minute limit: it is admitted unless the suspicious
\* pattern check fires, which rejects it and blocks the identity.
C4_WindowAccounting ==
    [][\A ip \in Identities, size \in Sizes :
          (CheckRateLimit(ip, size) /\ size <= 50000 /\ circuitBreaker.state # "OPEN"
             /\ TenWithin59(ip) /\ ~BlockedNow(ip) /\ TokensAfterRefill(ip) >= TokenScale)
          => /\ now - requestLogs[ip][1].timestamp < 60000
                  => IsRetryAfter(lastCheck', "per_minute", 60)
             /\ now - requestLogs[ip][1].timestamp > 60000
                  => /\ lastCheck'.reason # "per_minute"
                     /\ lastCheck'.allowed <=> ~SuspiciousPattern(ip)
                     /\ SuspiciousPattern(ip)
                          => /\ IsRetryAfter(lastCheck', "suspicious", 900)
                             /\ blockedIPs'[ip] = now + 900000]_vars

\* more than 60 s after the first of ten requests an 11th has been admitted
C4_Witness ==
    LET logs == requestLogs["client_1"]
    IN  /\ Len(logs) = 11
        /\ logs[10].timestamp - logs[1].timestamp <= 59000
        /\ logs[11].timestamp = now
        /\ now - logs[1].timestamp > 60000
        /\ lastCheck.allowed

\* C5: every recordFailure() adds one to failures and sets lastFailureTime to
\* the current time; a CLOSED breaker stays CLOSED while the new count is
\* below 5 (the first four calls from 0) and is OPEN once it reaches 5; a
\* HALF_OPEN breaker is OPEN after a single call; an OPEN breaker stays OPEN.
C5_RecordFailureTransitions ==
    [][RecordFailure =>
          /\ circuitBreaker'.failures = circuitBreaker.failures + 1
          /\ circuitBreaker'.lastFailureTime = now
          /\ (circuitBreaker.state = "CLOSED" /\ circuitBreaker.failures < 4
                  => circuitBreaker'.state = "CLOSED")
          /\ (circuitBreaker.state = "CLOSED" /\ circuitBreaker.failures >= 4
                  => circuitBreaker'.state = "OPEN")
          /\ (circuitBreaker.state = "HALF_OPEN" => circuitBreaker'.state = "OPEN")
          /\ (circuitBreaker.state = "OPEN" => circuitBreaker'.state = "OPEN")]_vars

\* the fifth failure has just opened the breaker, some time after the start
C5_Witness ==
    /\ circuitBreaker.state = "OPEN"
    /\ circuitBreaker.failures = 5
    /\ circuitBreaker.lastFailureTime = now
    /\ now > 0

\* C6 as stated: a checkRateLimit call made 5 minutes or more after the last
\* failure of an OPEN breaker moves the breaker to HALF_OPEN and is not
\* rejected as circuit-open, whether or not the timer has fired.
C6_Original ==
    [][\A size \in Sizes :
          (CheckRateLimit("client_1", size) /\ circuitBreaker.state = "OPEN"
              /\ now - circuitBreaker.lastFailureTime >= 5 * 60 * 1000)
          => circuitBreaker'.state = "HALF_OPEN" /\ lastCheck'.reason # "circuit_open"]_vars

\* C6: checkRateLimit never changes the breaker and rejects a call as
\* circuit-open exactly while the state is OPEN; it is the 60-second timer
\* that moves an OPEN breaker to HALF_OPEN, at a tick at which more than 5
\* minutes have passed since the last failure and at no other, keeping
\* failures and lastFailureTime (no new failure is recorded).
C6_TimerHalfOpens ==
    [][/\ \A size \in Sizes :
             CheckRateLimit("client_1", size)
             => /\ circuitBreaker' = circuitBreaker
                /\ (lastCheck'.reason = "circuit_open" <=> circuitBreaker.state = "OPEN")
       /\ (UpdateCircuitBreakerTimer /\ circuitBreaker.state = "OPEN")
             => /\ circuitBreaker'.failures = circuitBreaker.failures
                /\ circuitBreaker'.lastFailureTime = circuitBreaker.lastFailureTime
                /\ IF now - circuitBreaker.lastFailureTime > 5 * 60 * 1000
                   THEN circuitBreaker'.state = "HALF_OPEN"
                   ELSE circuitBreaker'.state = "OPEN"]_vars

\* the timer has half-opened the breaker and a call has been admitted
C6_Witness ==
    /\ circuitBreaker.state = "HALF_OPEN"
    /\ circuitBreaker.failures >= 5
    /\ now - circuitBreaker.lastFailureTime > 5 * 60 * 1000
    /\ lastCheck.allowed

\* C7 as stated: a generateContent call that resolves with a valid answer
\* leaves failures at 0 and the breaker state unchanged.
C7_SuccessResetsFailures ==
    [][(NetResolve("valid") /\ call'.outcome = "result")
          => /\ circuitBreaker'.failures = 0
             /\ circuitBreaker'.state = circuitBreaker.state]_vars

\* C8 as stated: a response that is empty or not parseable ends the request
\* with the malformed-response error (422), without another network call and
\* with the breaker as it was.
C8_MalformedNotCounted ==
    [][\A content \in {"empty", "malformed"} :
          NetResolve(content)
          => /\ call'.outcome = "error"
             /\ call'.error.status = 422
             /\ call'.pc = "done" /\ call'.netCalls = call.netCalls
             /\ circuitBreaker' = circuitBreaker]_vars

\* C9 as stated: the rejection of the last attempt (retries exhausted) adds
\* exactly one to failures.
C9_OneFailurePerRequest ==
    [][\A kind \in {"other", "quota"}, jitter \in Jitters :
          (NetReject(kind, jitter) /\ call.attempt = maxRetries)
          => circuitBreaker'.failures = circuitBreaker.failures + 1]_vars

\* C10: a request that checkRateLimit does not allow ends at once with the
\* rate-limit error (429, isRateLimited) that carries the retryAfter of the
\* check result, without a network call and with the breaker unchanged.
C10_RejectionIsLocal ==
    [][\A fn \in Functions, size \in Sizes :
          (StartRequest(fn, "client_1", size) /\ apiKey /\ ~lastCheck'.allowed)
          => /\ lastCheck'.reason # "none"
             /\ call'.pc = "done" /\ call'.outcome = "error"
             /\ call'.error.status = 429 /\ call'.error.isRateLimited
             /\ call'.error.retryAfter = lastCheck'.retryAfter
             /\ call'.netCalls = 0
             /\ circuitBreaker' = circuitBreaker]_vars

\* a request rejected for the per-minute limit has ended with the error that
\* carries the 60 seconds of the check result, without a network call
C10_Witness ==
    /\ call.pc = "done" /\ call.outcome = "error"
    /\ lastCheck.reason = "per_minute"
    /\ call.error.isRateLimited /\ call.error.retryAfter = 60
    /\ call.netCalls = 0

\* C11: a HALF_OPEN breaker becomes CLOSED only at a tick of the one-minute
\* timer at which more than 10 minutes have passed since the last
\* recordFailure(), and failures is 0 then; at such a tick it does become
\* CLOSED; and with the timer firing, a HALF_OPEN breaker is eventually
\* CLOSED with failures 0 unless a recordFailure() reopens it (as far as the
\* tick that closes it lies within the minutes explored).
C11_HalfOpenCloses ==
    /\ [][/\ (circuitBreaker.state = "HALF_OPEN" /\ circuitBreaker'.state = "CLOSED")
                => /\ UpdateCircuitBreakerTimer
                   /\ now - circuitBreaker.lastFailureTime > 10 * 60 * 1000
                   /\ circuitBreaker'.failures = 0
          /\ (UpdateCircuitBreakerTimer /\ circuitBreaker.state = "HALF_OPEN"
                  /\ now - circuitBreaker.lastFailureTime > 10 * 60 * 1000)
                => circuitBreaker'.state = "CLOSED" /\ circuitBreaker'.failures = 0]_vars
    /\ ((circuitBreaker.state = "HALF_OPEN"
            /\ circuitBreaker.lastFailureTime + 10 * 60 * 1000 < BreakerMinutes * 60 * 1000)
           ~> (\/ circuitBreaker.state = "CLOSED" /\ circuitBreaker.failures = 0
               \/ circuitBreaker.state = "OPEN"))

\* the timer has closed a breaker that had opened: no failure is counted, the
\* time of the fifth failure is still there
C11_Witness ==
    /\ circuitBreaker.state = "CLOSED"
    /\ circuitBreaker.failures = 0
    /\ circuitBreaker.lastFailureTime > 0
    /\ now - circuitBreaker.lastFailureTime > 10 * 60 * 1000

\* C12 as stated: the first request of an identity after its block expired
\* (the expired entry is still in the table), with the breaker not OPEN and a
\* size within the limit, is admitted.
C12_AdmittedAfterExpiry ==
    [][\A size \in BlockSizes :
          (CheckRateLimit("client_1", size)
              /\ blockedIPs["client_1"] # 0 /\ now > blockedIPs["client_1"]
              /\ size <= 50000 /\ circuitBreaker.state # "OPEN")
          => lastCheck'.allowed]_vars

\* the tokens of the bucket after the refill of the step, before a token is
\* taken: a step that is not rejected for the burst limit takes one
RefilledInStep(ip) ==
    tokenBuckets'[ip].tokens + (IF lastCheck'.reason = "burst" THEN 0 ELSE TokenScale)

\* C13: the tokens of every bucket lie between 0 and the capacity of 20 in
\* every reachable state; in every step that touches a bucket the refill
\* yields the old tokens plus 0.5 per second capped at 20, which is not less
\* than the old tokens and not more than 20.
C13_TokenBounds ==
    /\ [](\A ip \in Identities :
             tokenBuckets[ip].present
             => 0 <= tokenBuckets[ip].tokens /\ tokenBuckets[ip].tokens <= 20 * TokenScale)
    /\ [][\A ip \in Identities :
             (tokenBuckets'[ip] # tokenBuckets[ip] /\ tokenBuckets'[ip].present)
             => /\ RefilledInStep(ip) = TokensAfterRefill(ip)
                /\ RefilledInStep(ip) <= 20 * TokenScale
                /\ tokenBuckets[ip].present => RefilledInStep(ip) >= tokenBuckets[ip].tokens]_vars

\* five tokens were taken, 55 seconds or more went by, and a sixth request
\* found the bucket refilled to the capacity, not beyond
C13_Witness ==
    /\ tokenBuckets["client_1"].present
    /\ tokenBuckets["client_1"].tokens = 19 * TokenScale
    /\ tokenBuckets["client_1"].lastRefill >= 55000
    /\ Len(requestLogs["client_1"]) >= 6

\* C14: reset() leaves the identity it is called for without request log,
\* token bucket and block entry; the log, bucket and block entry of every
\* other identity and the circuit breaker (state, failures, lastFailureTime)
\* are as before, so an OPEN breaker is still OPEN.
C14_ResetScope ==
    [][\A ip \in Identities :
          Reset(ip)
          => /\ requestLogs'[ip] = <<>>
             /\ ~tokenBuckets'[ip].present
             /\ blockedIPs'[ip] = 0
             /\ \A other \in Identities \ {ip} :
                    /\ requestLogs'[other] = requestLogs[other]
                    /\ tokenBuckets'[other] = tokenBuckets[other]
                    /\ blockedIPs'[other] = blockedIPs[other]
             /\ circuitBreaker' = circuitBreaker
             /\ isCircuitBreakerOpen(circuitBreaker') = isCircuitBreakerOpen(circuitBreaker)]_vars

\* client_1 was admitted and then reset (its log and bucket are gone) while
\* client_2 is still blocked and the breaker is still OPEN
C14_Witness ==
    /\ lastCheck.ip = "client_1" /\ lastCheck.allowed
    /\ requestLogs["client_1"] = <<>> /\ ~tokenBuckets["client_1"].present
    /\ blockedIPs["client_2"] # 0 /\ Len(requestLogs["client_2"]) = 5
    /\ circuitBreaker.state = "OPEN"

\* what cache.get(key) does in the step, whatever set stored: the stored data
\* while the time is not later than the expiry, null and the entry removed
\* after it; nothing is returned from an entry whose expiry is in the past
GetHonoursExpiry(key) ==
    /\ lastGet'.key = key
    /\ IF cache[key].present /\ now <= cache[key].timestamp
       THEN lastGet'.hit /\ lastGet'.data = cache[key].data /\ cache' = cache
       ELSE /\ ~lastGet'.hit
            /\ ~cache'[key].present
            /\ \A other \in CacheKeys \ {key} : cache'[other] = cache[other]
    /\ lastGet'.hit => cache[key].timestamp >= now

\* C15 as stated: set(key, results, ttl) stores exactly the results given,
\* to expire ttl after the set, and get(key) returns them until then.
C15_Original ==
    [][/\ \A key \in CacheKeys, data \in CacheData, ttl \in CacheTTLs :
             CacheSet(key, data, ttl)
             => cache'[key] = [present |-> TRUE, data |-> data, timestamp |-> now + ttl]
       /\ \A key \in CacheKeys : CacheGet(key) => GetHonoursExpiry(key)]_vars

\* C15: set(key, results, ttl) stores the results in their order, each a
\* copy whose timestamp field is the time of the set and whose other fields
\* are as given, to expire ttl after the set; get(key) returns the stored
\* copies at any time not later than the expiry, and returns null and
\* removes the entry at any later time.
C15_CacheRoundTrip ==
    [][/\ \A key \in CacheKeys, data \in CacheData, ttl \in CacheTTLs :
             CacheSet(key, data, ttl)
             => /\ cache'[key].present /\ cache'[key].timestamp = now + ttl
                /\ Len(cache'[key].data) = Len(data)
                /\ \A i \in 1..Len(data) :
                       /\ cache'[key].data[i].timestamp = now
                       /\ [cache'[key].data[i] EXCEPT !.timestamp = data[i].timestamp] = data[i]
       /\ \A key \in CacheKeys : CacheGet(key) => GetHonoursExpiry(key)]_vars

\* two results set at 0 for 1000 ms and read at 1000 ms, the last moment
C15_Witness ==
    /\ now = 1000
    /\ lastGet.hit /\ Len(lastGet.data) = 2
    /\ lastGet.data[1].timestamp = 0
    /\ cache[lastGet.key].timestamp = 1000

\* the lower-cased (name, country) of a result
NameCountry(r) == <<toLowerCase(r.name), toLowerCase(r.country)>>

\* C16: the list deduplicateResults returns has at most one entry per
\* lower-cased (name, country); an entry it keeps is one of the inputs, has
\* the highest confidence of the inputs with its (name, country) and is the
\* earliest input with that confidence; local Roma/Italia 90 followed by
\* external roma/Italia 85 gives the local Roma alone.
C16_DedupPrecedence ==
    merged.done =>
        LET in == merged.input
            out == merged.output
        IN  /\ \A i, j \in 1..Len(out) : i # j => NameCountry(out[i]) # NameCountry(out[j])
            /\ \A i \in 1..Len(out) :
                   \E k \in 1..Len(in) :
                       /\ in[k] = out[i]
                       /\ \A m \in 1..Len(in) :
                              NameCountry(in[m]) = NameCountry(out[i])
                              => \/ in[m].confidence < in[k].confidence
                                 \/ in[m].confidence = in[k].confidence /\ k <= m
            /\ in = <<Roma, RomaApi>> => out = <<Roma>>

\* the local result replaced the external one of lower confidence, and the
\* later external result of the same confidence did not replace it
C16_Witness ==
    /\ merged.done
    /\ merged.input = <<RomaApi, Roma, RomaTie>>
    /\ merged.output = <<Roma>>

\* C17: when the external lookup of a getAutocompleteResults call fails, the
\* call returns its local results with source local, fromCache false and
\* the error attached if fallbackToLocal is true and there is a local
\* result; otherwise it throws the error.
C17_FallbackToLocal ==
    [][\A i \in 1..MaxPending, error \in ApiErrors :
          ApiReject(i, error)
          => LET p == pending[i]
             IN  /\ lastLookup'.p = p
                 /\ IF p.options.fallbackToLocal /\ localResultsOf(p.query) # <<>>
                    THEN /\ lastLookup'.ret.kind = "return"
                         /\ lastLookup'.ret.results = localResultsOf(p.query)
                         /\ lastLookup'.ret.source = "local"
                         /\ ~lastLookup'.ret.fromCache
                         /\ lastLookup'.ret.error = error
                    ELSE /\ lastLookup'.ret.kind = "throw"
                         /\ lastLookup'.ret.error = error]_vars

\* the external API timed out for a query with a local result: the call
\* returned the local Roma with the error attached
C17_Witness ==
    /\ lastLookup.ret.kind = "return"
    /\ lastLookup.ret.error.code = "TIMEOUT"
    /\ Len(lastLookup.ret.results) = 1 /\ lastLookup.ret.results[1].source = "local"
    /\ lastLookup.ret.source = "local" /\ ~lastLookup.ret.fromCache
    /\ lastLookup.p.options.fallbackToLocal

\* C18: search(query) makes query the most recently issued query; when a
\* lookup of the hook settles, by a result or by an error, the hook changes
\* nothing (suggestions, error, loading and the rest) if the query of that
\* lookup is not the most recently issued query, and otherwise shows the
\* outcome of that lookup and stops loading.
C18_StaleDropped ==
    [][/\ \A query \in HookQueries : Search(query) => hook'.lastQuery = query
       /\ \A i \in 1..MaxPending :
             (/\ \/ \E apiResults \in ApiResults : ApiResolve(i, apiResults)
                 \/ \E error \in ApiErrors : ApiReject(i, error)
              /\ pending[i].viaHook)
             => IF pending[i].query # hook.lastQuery
                THEN hook' = hook
                ELSE /\ hook'.suggestions = lastLookup'.ret.results
                     /\ ~hook'.isLoading
                     /\ hook'.lastQuery = hook.lastQuery]_vars

\* the lookup for "ro" settled last, after the search for "xq" and its
\* lookup: the suggestions are still those of "xq"
C18_Witness ==
    /\ pending = <<>>
    /\ lastLookup.p.viaHook /\ lastLookup.p.query = "ro" /\ lastLookup.ret.kind = "return"
    /\ hook.lastQuery = "xq"
    /\ hook.suggestions = <<Paris, RomaApi>>
    /\ ~hook.isLoading

\* C19 as stated: when the last attempt of a request fails (retries
\* exhausted), getTravelAnalysis/getPackingList end with the mock data.
C19_MockOnFailure ==
    [][\A kind \in {"other", "quota"}, jitter \in Jitters :
          (NetReject(kind, jitter) /\ call.attempt = maxRetries)
          => call'.pc = "done" /\ call'.outcome = "mock"]_vars

\* C20: while the breaker is OPEN every checkRateLimit call, of whatever
\* identity, is rejected as circuit-open with retryAfter 300 and leaves the
\* request logs, the token buckets and the block table as they are.
C20_OpenFrame ==
    [][\A ip \in Identities :
          (CheckRateLimit(ip, 100) /\ circuitBreaker.state = "OPEN")
          => /\ ~lastCheck'.allowed
             /\ lastCheck'.reason = "circuit_open"
             /\ lastCheck'.retryAfter = 300
             /\ requestLogs' = requestLogs
             /\ tokenBuckets' = tokenBuckets
             /\ blockedIPs' = blockedIPs]_vars

\* the breaker is OPEN and the call of a blocked identity was rejected as
\* circuit-open; the other identity's bucket holds 17 tokens, untouched
C20_Witness ==
    /\ circuitBreaker.state = "OPEN"
    /\ lastCheck.ip = "client_2" /\ lastCheck.reason = "circuit_open"
    /\ blockedIPs["client_2"] # 0
    /\ tokenBuckets["client_1"].present /\ tokenBuckets["client_1"].tokens = 17 * TokenScale
    /\ tokenBuckets["client_1"].lastRefill < now

\* C21: a request that passes the checks 1 to 6 while 5 or more requests of
\* its identity were logged in the last 10 seconds is rejected with
\* retryAfter 900, is not logged, and leaves a block that expires exactly 15
\* minutes later; a request made before the expiry of a block (breaker not
\* OPEN) is rejected as blocked with the remaining time rounded up to
\* seconds and leaves the block table as it is.
C21_SuspiciousBlocks ==
    [][\A size \in Sizes :
          CheckRateLimit("client_1", size)
          => /\ (FirstFailing("client_1", size) = 7 /\ LoggedWithin("client_1", 10000) >= 5)
                => /\ blockedIPs'["client_1"] = now + 15 * 60 * 1000
                   /\ IsRetryAfter(lastCheck', "suspicious", 900)
                   /\ requestLogs' = requestLogs
             /\ (circuitBreaker.state # "OPEN" /\ blockedIPs["client_1"] # 0
                    /\ now < blockedIPs["client_1"])
                => /\ ~lastCheck'.allowed /\ lastCheck'.reason = "blocked"
                   /\ lastCheck'.retryAfter * 1000 >= blockedIPs["client_1"] - now
                   /\ (lastCheck'.retryAfter - 1) * 1000 < blockedIPs["client_1"] - now
                   /\ blockedIPs' = blockedIPs
                   /\ requestLogs' = requestLogs]_vars

\* blocked at 2.5 s until 902.5 s; the request at 59.999 s is told to wait
\* the 842.501 s that remain, rounded up
C21_Witness ==
    /\ now = 59999
    /\ blockedIPs["client_1"] = 902500
    /\ lastCheck.reason = "blocked" /\ lastCheck.retryAfter = 843

\* the errors the claim calls non-retryable
C22_NonRetryable(error) == error.isRateLimited \/ error.status \in 400..499

\* C22: the retry loop ends, after at most 4 calls of the operation; after an
\* error that is rate-limited or has a status from 400 to 499 no further
\* attempt is made; the wait before retry k (0, 1, 2) is at least 1000 * 2^k
\* ms, at most 1000 * 2^k + 1000 ms, and never more than 30000 ms.
C22_RetryTerminates ==
    /\ [](call.netCalls <= 4)
    /\ [][/\ \A e \in OperationErrors, j \in Jitters :
               (NetRejectAPIError(e, j) /\ C22_NonRetryable(e))
               => (call'.pc = "done" /\ call'.error = e /\ call'.netCalls = call.netCalls)
          /\ (call.pc = "awaitNet" /\ call'.pc = "backoff")
               => /\ call.attempt \in 0..2
                  /\ call'.wakeAt - now >= 1000 * 2^(call.attempt)
                  /\ call'.wakeAt - now <= 1000 * 2^(call.attempt) + 1000
                  /\ call'.wakeAt - now <= 30000
          /\ (call.pc = "done") => (call'.netCalls = call.netCalls)]_vars
    /\ (call.pc = "awaitNet" ~> call.pc = "done")

\* the fourth call of the operation failed after waits of 1999, 2000 and
\* 4999 ms, and the request ended with the error
C22_Witness ==
    /\ call.pc = "done" /\ call.netCalls = 4 /\ call.outcome = "error"
    /\ now = 1999 + 2000 + 4999

\* a request ended after one call with the client error the operation threw
C22_WitnessNonRetryable ==
    /\ call.pc = "done" /\ call.netCalls = 1
    /\ call.error = APIError(404, NoRetryAfter, FALSE)

\* a result of the local database whose name is the query
C23_LocalExactMatch(result, query) ==
    result.source = "local" /\ toLowerCase(result.name) = toLowerCase(query)

\* C23: in the list returned after a successful external lookup a local exact
\* match for the query precedes every api result; otherwise the entries are in
\* descending confidence, ties in descending popularity; and the list has at
\* most maxResults entries.
C23_Ranking ==
    [][\A i \in 1..MaxPending, apiResults \in ApiResults :
          ApiResolve(i, apiResults)
          => LET results == lastLookup'.ret.results
                 query == pending[i].query
             IN  /\ Len(results) <= maxResults
                 /\ \A a, b \in 1..Len(results) :
                       a < b =>
                         IF C23_LocalExactMatch(results[a], query) /\ results[b].source = "api"
                         THEN TRUE
                         ELSE /\ ~(C23_LocalExactMatch(results[b], query) /\ results[a].source = "api")
                              /\ results[a].confidence >= results[b].confidence
                              /\ results[a].confidence = results[b].confidence
                                   => results[a].popularity >= results[b].popularity]_vars

\* handleInputChange was called with "ro", "rom" and "roma", in this order,
\* less than 300 ms after one another, and with nothing else
C24_Typed ==
    /\ Len(hook.inputs) = 3
    /\ hook.inputs[1].value = "ro" /\ hook.inputs[2].value = "rom" /\ hook.inputs[3].value = "roma"
    /\ hook.inputs[2].at - hook.inputs[1].at < 300
    /\ hook.inputs[3].at - hook.inputs[2].at < 300

\* C24: after handleInputChange("ro"), ("rom") and ("roma") with less than
\* 300 ms between the calls, a lookup was issued for "roma" only (none is
\* pending, has settled, was counted by the limiter or was cached for "ro"
\* or "rom"), and the only list of suggestions displayed is that for "roma".
C24_Debounce ==
    C24_Typed
    => /\ hook.lastQuery \in {"", "roma"}
       /\ \A i \in 1..Len(pending) : pending[i].query = "roma"
       /\ lastLookup.ret.kind # "none" => lastLookup.p.query = "roma"
       /\ ~cache[cacheKeyOf("ro")].present /\ ~cache[cacheKeyOf("rom")].present
       /\ Len(apiRequests) <= 1
       /\ (hook.showSuggestions \/ hook.suggestions # <<>>)
            => /\ lastLookup.p.query = "roma"
               /\ hook.suggestions = lastLookup.ret.results

\* typed at 0, 100 and 200 ms; the lookup for "roma" was issued at 500 ms and
\* its results are displayed
C24_Witness ==
    /\ C24_Typed
    /\ hook.inputs[1].at = 0 /\ hook.inputs[2].at = 100 /\ hook.inputs[3].at = 200
    /\ hook.lastQuery = "roma" /\ hook.showSuggestions
    /\ hook.suggestions = <<Paris, Roma>>
    /\ apiRequests = <<500>>

\* C25: while the breaker is CLOSED its count of failures is at most 4, while
\* it is OPEN or HALF_OPEN the count is at least 5; the count goes down only
\* in the step from HALF_OPEN to CLOSED, which sets it to 0.
C25_FailureCount ==
    /\ [](/\ circuitBreaker.state = "CLOSED" => circuitBreaker.failures <= 4
          /\ circuitBreaker.state \in {"OPEN", "HALF_OPEN"} => circuitBreaker.failures >= 5)
    /\ [][circuitBreaker'.failures < circuitBreaker.failures
            => /\ circuitBreaker.state = "HALF_OPEN" /\ circuitBreaker'.state = "CLOSED"
               /\ circuitBreaker'.failures = 0]_vars

\* the breaker closed again, more than ten minutes after the fifth failure,
\* and has counted two failures since
C25_Witness ==
    /\ circuitBreaker.state = "CLOSED"
    /\ circuitBreaker.failures = 2
    /\ now > closeAfterMs

\* the request of this size is larger than 10000 and than 3 times the average
\* of the sizes logged for the identity before it
C26_OwnSizeAnomaly(ip, size) ==
    /\ requestLogs[ip] # <<>>
    /\ size > 10000
    /\ size * Len(requestLogs[ip]) > 3 * SumSizes(requestLogs[ip])

\* C26 as stated: of the requests that pass the checks 1 to 6, one whose own
\* size is above 10000 and above 3 times the historical average is rejected
\* and its identity blocked by that same call; one of ordinary size that
\* follows fewer than 5 requests in 10 seconds is not rejected as suspicious.
C26_SizeCheckOnRequest ==
    [][\A size \in BlockSizes :
          (CheckRateLimit("client_1", size) /\ FirstFailing("client_1", size) >= 7)
          => /\ C26_OwnSizeAnomaly("client_1", size)
                => /\ IsRetryAfter(lastCheck', "suspicious", 900)
                   /\ blockedIPs'["client_1"] = now + 15 * 60 * 1000
             /\ (size <= 10000 /\ LoggedWithin("client_1", 10000) < 5)
                => lastCheck'.reason # "suspicious"]_vars

\* C27 as stated: a call of checkRateLimit that is rejected, at whichever
\* step, leaves the bucket of its identity untouched or with the tokens the
\* refill alone gives: it takes no token.
C27_RejectedTakesNoToken ==
    [][\A size \in Sizes :
          (CheckRateLimit("client_1", size) /\ ~lastCheck'.allowed)
          => \/ tokenBuckets'["client_1"] = tokenBuckets["client_1"]
             \/ tokenBuckets'["client_1"].tokens = TokensAfterRefill("client_1")]_vars

\* the call that returned last fell back to the local results for the key of
\* this query, and the entry it cached is still in the cache
C28_AfterFallback(query) ==
    /\ lastLookup.ret.kind = "return"
    /\ lastLookup.ret.error # NoAutocompleteError
    /\ cacheKeyOf(lastLookup.p.query) = cacheKeyOf(query)
    /\ cache[cacheKeyOf(query)].present

\* C28, amended: the fallback to the local results caches them for
\* cacheTimeout; a call with the same query made while the entry lives is
\* answered from the cache (source cache, fromCache, no error) without an
\* attempt at the external lookup; after cacheTimeout has passed the call
\* attempts the external lookup again.
C28_FallbackCached ==
    [][/\ \A i \in 1..MaxPending, error \in ApiErrors :
             (ApiReject(i, error) /\ pending[i].options.fallbackToLocal
                  /\ pending[i].localResults # <<>>)
             => cache'[cacheKeyOf(pending[i].query)] =
                    [present |-> TRUE, data |-> stamp(pending[i].localResults, now),
                     timestamp |-> now + pending[i].options.cacheTimeout]
       /\ \A query \in FallbackQueries, options \in FallbackOptions :
             (GetAutocompleteResults(query, options) /\ C28_AfterFallback(query))
             => IF now <= cache[cacheKeyOf(query)].timestamp
                THEN /\ lastLookup'.ret = Returned(cache[cacheKeyOf(query)].data, "cache", TRUE,
                                                   NoAutocompleteError)
                     /\ UNCHANGED <<apiRequests, pending>>
                ELSE /\ ~cache'[cacheKeyOf(query)].present
                     /\ canMakeRequest(apiRequests, now).ok
                          => (Len(pending') = Len(pending) + 1 /\ apiRequests' # apiRequests)]_vars

\* C28 as stated: a call with the same query within cacheTimeout of the
\* fallback attempts the external lookup again and is not answered from the
\* cache.
C28_Original ==
    [][\A query \in FallbackQueries, options \in FallbackOptions :
          (GetAutocompleteResults(query, options) /\ C28_AfterFallback(query)
              /\ now <= cache[cacheKeyOf(query)].timestamp)
          => /\ apiRequests' # apiRequests
             /\ ~(lastLookup'.ret.source = "cache" /\ lastLookup'.ret.error = NoAutocompleteError)]_vars

\* the external lookup of "ro" failed at 0 ms and the local results were
\* cached; the call at 500 ms was answered from the cache, with no second
\* attempt at the external lookup
C28_Witness ==
    /\ now = 500
    /\ apiRequests = <<0>> /\ pending = <<>>
    /\ lastLookup.p.query = "ro"
    /\ lastLookup.ret = Returned(stamp(<<Roma>>, 0), "cache", TRUE, NoAutocompleteError)

\* C29 as stated: getAutocompleteStats changes neither the cache nor the
\* request history of the RateLimiter.
C29_StatsReadOnly ==
    [][GetAutocompleteStats => UNCHANGED <<cache, apiRequests>>]_vars

\* C30 as stated: when a lookup the hook issued before selectSuggestion
\* settles after it, with no input or search in between, the suggestions
\* stay empty and the dropdown stays closed.
C30_StaysClosed ==
    [][\A i \in 1..MaxPending :
          (/\ \/ \E apiResults \in ApiResults : ApiResolve(i, apiResults)
              \/ \E error \in ApiErrors : ApiReject(i, error)
           /\ pending[i].viaHook
           /\ hook.selected)
          => (~hook'.showSuggestions /\ hook'.suggestions = <<>>)]_vars

====
